---- MODULE Spec2Model ----
(***************************************************************************)
(* A model of the VOS command emulator (vos_emulator.py): the command      *)
(* resolver of VOShell, the working directory of the sandboxed file        *)
(* system, and the file-backed batch job store.                            *)
(*                                                                         *)
(* Text is modelled by TLA+ strings, on which TLC evaluates Len, Head,     *)
(* Tail, SubSeq and \o character by character.                             *)
(***************************************************************************)
EXTENDS Integers, Sequences, FiniteSets, TLC

VARIABLES
    commands,      \* VOShell.commands: the registry, in insertion order
    commands_ci,   \* VOShell.commands_ci: lower-cased name -> (name, value)
    aliases,       \* VOShell.aliases: lower-cased pattern -> target, in order
    index,         \* VOShell.index: the sorted canonical names
    yaml_pack,     \* the entries of commands.yaml
    dirs,          \* the directories of the host file system (absolute paths)
    files,         \* the files of the host file system: path -> content
    CURRENT_DIR,   \* the working directory, relative to STATE_DIR
    LAST_ERROR,    \* <<>> for None, or <<message>>
    now,           \* int(time.time())
    pc,            \* where the shell's read/resolve loop stands
    line,          \* the line last handed to _resolve
    result,        \* what _resolve returned for it
    last,          \* the handler call just made: name, arguments, outcome
    submitters     \* the processes inside h_batch: where each stands

shellVars == <<commands, commands_ci, aliases, index, yaml_pack>>

vars == <<commands, commands_ci, aliases, index, yaml_pack, dirs, files, CURRENT_DIR,
          LAST_ERROR, now, pc, line, result, last, submitters>>

(***************************************************************************)
(* Text helpers: str.lower, str.strip, str.split, str.startswith,          *)
(* str.join, fnmatch.fnmatch.                                              *)
(***************************************************************************)
UpperAlpha == "ABCDEFGHIJKLMNOPQRSTUVWXYZ"
LowerAlpha == "abcdefghijklmnopqrstuvwxyz"

Char(s, i) == SubSeq(s, i, i)

\* str.lower / str.upper of one character, as tables over the ASCII letters
LowerTab == [c \in {Char(UpperAlpha, i) : i \in 1..Len(UpperAlpha)} |->
                Char(LowerAlpha, CHOOSE i \in 1..Len(UpperAlpha) : Char(UpperAlpha, i) = c)]

UpperTab == [c \in {Char(LowerAlpha, i) : i \in 1..Len(LowerAlpha)} |->
                Char(UpperAlpha, CHOOSE i \in 1..Len(LowerAlpha) : Char(LowerAlpha, i) = c)]

LowerChar(c) == IF c \in DOMAIN LowerTab THEN LowerTab[c] ELSE c

UpperChar(c) == IF c \in DOMAIN UpperTab THEN UpperTab[c] ELSE c

RECURSIVE Lower(_)
Lower(s) == IF s = "" THEN "" ELSE LowerChar(Head(s)) \o Lower(Tail(s))

RECURSIVE Upper(_)
Upper(s) == IF s = "" THEN "" ELSE UpperChar(Head(s)) \o Upper(Tail(s))

IsSpace(c) == c \in {" ", "\t", "\n"}

RECURSIVE LStrip(_)
LStrip(s) == IF s # "" /\ IsSpace(Head(s)) THEN LStrip(Tail(s)) ELSE s

RECURSIVE RStrip(_)
RStrip(s) ==
    IF s # "" /\ IsSpace(Char(s, Len(s))) THEN RStrip(SubSeq(s, 1, Len(s) - 1)) ELSE s

Strip(s) == RStrip(LStrip(s))

StartsWith(s, p) == Len(p) <= Len(s) /\ SubSeq(s, 1, Len(p)) = p

EndsWith(s, p) == Len(p) <= Len(s) /\ SubSeq(s, Len(s) - Len(p) + 1, Len(s)) = p

\* str.split(): the maximal runs of non-whitespace characters, in order.
RECURSIVE SplitFrom(_, _, _)
SplitFrom(s, cur, acc) ==
    IF s = ""
    THEN IF cur = "" THEN acc ELSE Append(acc, cur)
    ELSE IF IsSpace(Head(s))
         THEN SplitFrom(Tail(s), "", IF cur = "" THEN acc ELSE Append(acc, cur))
         ELSE SplitFrom(Tail(s), cur \o Head(s), acc)

Split(s) == SplitFrom(s, "", <<>>)

\* sep.join(items)
RECURSIVE Join(_, _)
Join(items, sep) ==
    IF items = <<>> THEN ""
    ELSE IF Len(items) = 1 THEN items[1]
    ELSE items[1] \o sep \o Join(Tail(items), sep)

\* fnmatch.fnmatch(s, p) for patterns built of literals, '*' and '?'.  The
\* lines the model feeds to the resolver hold no '[', so bracket
\* expressions never arise.
RECURSIVE FnMatch(_, _)
FnMatch(s, p) ==
    IF p = "" THEN s = ""
    ELSE IF Head(p) = "*"
         THEN FnMatch(s, Tail(p)) \/ (s # "" /\ FnMatch(Tail(s), p))
    ELSE IF Head(p) = "?"
         THEN s # "" /\ FnMatch(Tail(s), Tail(p))
    ELSE s # "" /\ Head(s) = Head(p) /\ FnMatch(Tail(s), Tail(p))

Range(f) == {f[i] : i \in DOMAIN f}

(***************************************************************************)
(* String order: Python compares strings by code point.  Ord gives the     *)
(* ASCII rank of the characters that occur in command names.               *)
(***************************************************************************)
AsciiOrder == " *-0123456789?ABCDEFGHIJKLMNOPQRSTUVWXYZ_abcdefghijklmnopqrstuvwxyz"

OrdTab == [c \in {Char(AsciiOrder, i) : i \in 1..Len(AsciiOrder)} |->
              CHOOSE i \in 1..Len(AsciiOrder) : Char(AsciiOrder, i) = c]

Ord(c) == IF c \in DOMAIN OrdTab THEN OrdTab[c] ELSE 0

RECURSIVE StrLess(_, _)
StrLess(a, b) ==
    IF b = "" THEN FALSE
    ELSE IF a = "" THEN TRUE
    ELSE IF Head(a) = Head(b) THEN StrLess(Tail(a), Tail(b))
    ELSE Ord(Head(a)) < Ord(Head(b))

\* sorted(names) for a set of distinct strings
RECURSIVE SortedSeq(_)
SortedSeq(S) ==
    IF S = {} THEN <<>>
    ELSE LET m == CHOOSE x \in S : \A y \in S \ {x} : StrLess(x, y)
         IN <<m>> \o SortedSeq(S \ {m})

(***************************************************************************)
(* The registry.  A registered value is a handler function (Fn), a stub    *)
(* closure made by register_bulk (Stub), or the static text of a command   *)
(* pack entry (Text); NoVal stands for Python's None.                      *)
(***************************************************************************)
Fn(h) == [t |-> "fn", v |-> h]
Stub(k) == [t |-> "stub", v |-> k]
Text(s) == [t |-> "str", v |-> s]
NoVal == [t |-> "none", v |-> ""]

Callable(val) == val.t \in {"fn", "stub"}

BUILTINS ==
    <<
       [name |-> "list", val |-> Fn("h_list")],
       [name |-> "create_file", val |-> Fn("h_create_file")],
       [name |-> "copy_file", val |-> Fn("h_copy_file")],
       [name |-> "move_file", val |-> Fn("h_move_file")],
       [name |-> "compare_files", val |-> Fn("h_compare_files")],
       [name |-> "delete_file", val |-> Fn("h_delete_file")],
       [name |-> "create_dir", val |-> Fn("h_create_dir")],
       [name |-> "copy_dir", val |-> Fn("h_copy_dir")],
       [name |-> "move_dir", val |-> Fn("h_move_dir")],
       [name |-> "delete_dir", val |-> Fn("h_delete_dir")],
       [name |-> "rename", val |-> Fn("h_rename")],
       [name |-> "display_file", val |-> Fn("h_display_file")],
       [name |-> "display_file_status", val |-> Fn("h_display_file_status")],
       [name |-> "display_dir_status", val |-> Fn("h_display_dir_status")],
       [name |-> "display_disk_usage", val |-> Fn("h_display_disk_usage")],
       [name |-> "dump_file", val |-> Fn("h_dump_file")],
       [name |-> "list_users", val |-> Fn("h_list_users")],
       [name |-> "list_library_paths", val |-> Fn("h_list_library_paths")],
       [name |-> "add_library_path", val |-> Fn("h_add_library_path")],
       [name |-> "delete_library_path", val |-> Fn("h_delete_library_path")],
       [name |-> "set_language", val |-> Fn("h_set_language")],
       [name |-> "set_time_zone", val |-> Fn("h_set_time_zone")],
       [name |-> "set_line_wrap_width", val |-> Fn("h_set_line_wrap_width")],
       [name |-> "profile", val |-> Fn("h_profile")],
       [name |-> "add_profile", val |-> Fn("h_add_profile")],
       [name |-> "compare_dirs", val |-> Fn("h_compare_dirs")],
       [name |-> "clone_dir", val |-> Fn("h_clone_dir")],
       [name |-> "clone_file", val |-> Fn("h_clone_file")],
       [name |-> "display_current_dir", val |-> Fn("h_display_current_dir")],
       [name |-> "display_current_module", val |-> Fn("h_display_current_module")],
       [name |-> "display_date_time", val |-> Fn("h_display_date_time")],
       [name |-> "display_line", val |-> Fn("h_display_line")],
       [name |-> "change_current_dir", val |-> Fn("h_change_current_dir")],
       [name |-> "display_device_info", val |-> Fn("h_display_device_info")],
       [name |-> "display_disk_info", val |-> Fn("h_display_disk_info")],
       [name |-> "display_system_usage", val |-> Fn("h_display_system_usage")],
       [name |-> "display_error", val |-> Fn("h_display_error")],
       [name |-> "display_notices", val |-> Fn("h_display_notices")],
       [name |-> "display_terminal_parameters", val |-> Fn("h_display_terminal_parameters")],
       [name |-> "locate_files", val |-> Fn("h_locate_files")],
       [name |-> "locate_large_files", val |-> Fn("h_locate_large_files")],
       [name |-> "locate_large_dirs", val |-> Fn("h_locate_large_dirs")],
       [name |-> "batch", val |-> Fn("h_batch")],
       [name |-> "display_batch_status", val |-> Fn("h_display_batch_status")],
       [name |-> "list_batch_requests", val |-> Fn("h_list_batch_requests")],
       [name |-> "cancel_batch_requests", val |-> Fn("h_cancel_batch_requests")],
       [name |-> "update_batch_requests", val |-> Fn("h_update_batch_requests")],
       [name |-> "show commands status", val |-> Fn("h_show_commands_status")],
       [name |-> "show commands report", val |-> Fn("h_show_commands_status")]
    >>

ALIASES ==
    << [pattern |-> "ls", target |-> "list"],
       [pattern |-> "ll", target |-> "list"],
       [pattern |-> "quit", target |-> "exit"],
       [pattern |-> "q", target |-> "exit"],
       [pattern |-> "show commands report", target |-> "show commands status"] >>

\* the emulator-specific names VOShell.__init__ keeps besides the text list
AllowedInternal ==
    {
       "list", "create_file", "copy_file", "move_file", "compare_files",
       "delete_file", "create_dir", "copy_dir", "move_dir", "delete_dir",
       "rename", "display_file", "display_file_status", "display_dir_status",
       "display_disk_usage", "dump_file", "list_users", "list_library_paths",
       "add_library_path", "delete_library_path", "set_language",
       "set_time_zone", "set_line_wrap_width", "profile", "add_profile",
       "compare_dirs", "clone_dir", "clone_file", "display_current_dir",
       "display_current_module", "display_date_time", "display_line",
       "change_current_dir", "display_device_info", "display_disk_info",
       "display_system_usage", "display_error", "display_notices",
       "display_terminal_parameters", "locate_files", "locate_large_dirs",
       "locate_large_files", "batch", "display_batch_status",
       "list_batch_requests", "cancel_batch_requests",
       "update_batch_requests", "show commands status",
       "show commands report"
    }

Keys(cmds) == {cmds[i].name : i \in DOMAIN cmds}

\* OrderedDict: d[k] = v keeps the position of an existing key
DictSet(cmds, k, v) ==
    IF k \in Keys(cmds)
    THEN [i \in DOMAIN cmds |-> IF cmds[i].name = k THEN [name |-> k, val |-> v] ELSE cmds[i]]
    ELSE Append(cmds, [name |-> k, val |-> v])

RECURSIVE DictUpdate(_, _)
DictUpdate(cmds, pack) ==
    IF pack = <<>> THEN cmds
    ELSE DictUpdate(DictSet(cmds, pack[1].name, pack[1].val), Tail(pack))

DictGet(cmds, k) == (CHOOSE e \in Range(cmds) : e.name = k).val

\* load_txt_commands: the stripped lines that are neither empty nor comments
RECURSIVE load_txt_commands(_)
load_txt_commands(lines) ==
    IF lines = <<>> THEN <<>>
    ELSE LET ln == Strip(Head(lines))
         IN IF ln = "" \/ StartsWith(ln, "#")
            THEN load_txt_commands(Tail(lines))
            ELSE <<ln>> \o load_txt_commands(Tail(lines))

\* register_bulk: a stub for every name not yet a key (case-sensitive)
RECURSIVE register_bulk(_, _)
register_bulk(cmds, names) ==
    IF names = <<>> THEN cmds
    ELSE LET key == Strip(Head(names))
         IN IF key # "" /\ key \notin Keys(cmds)
            THEN register_bulk(Append(cmds, [name |-> key, val |-> Stub(key)]), Tail(names))
            ELSE register_bulk(cmds, Tail(names))

\* VOShell.__init__: built-ins, pack, bulk stubs, the allowed filter, and
\* the removal of names that are alias keys
ShellCommands(txtLines, pack) ==
    LET txt == load_txt_commands(txtLines)
        c1 == DictUpdate(BUILTINS, pack)
        c2 == register_bulk(c1, txt)
        allowed == Range(txt) \cup AllowedInternal
        c3 == SelectSeq(c2, LAMBDA e : e.name \in allowed)
        aliasKeys == {ALIASES[i].pattern : i \in DOMAIN ALIASES}
    IN SelectSeq(c3, LAMBDA e : e.name \notin aliasKeys)

ShellAliases == [i \in DOMAIN ALIASES |->
                    [pattern |-> Lower(ALIASES[i].pattern), target |-> ALIASES[i].target]]

\* {k.lower(): (k, v) for k, v in commands.items()}: the last entry wins
CommandsCi(cmds) ==
    [lc \in {Lower(cmds[i].name) : i \in DOMAIN cmds} |->
        LET final == CHOOSE i \in DOMAIN cmds :
                        /\ Lower(cmds[i].name) = lc
                        /\ \A j \in DOMAIN cmds : Lower(cmds[j].name) = lc => j <= i
        IN [orig |-> cmds[final].name, val |-> cmds[final].val]]

ShellIndex(cmds) == SortedSeq(Keys(cmds))

(***************************************************************************)
(* difflib.get_close_matches(word, possibilities, n, cutoff)               *)
(***************************************************************************)
Min(a, b) == IF a < b THEN a ELSE b

\* the element of a one-element set: The({e : x \in {v}}) is e with x bound
\* to the value of v, as a local variable assigned once
The(S) == CHOOSE x \in S : TRUE

\* length of the common run of a from i and b from j
RECURSIVE RunLen(_, _, _, _, _, _)
RunLen(a, i, ahi, b, j, bhi) ==
    IF i <= ahi /\ j <= bhi /\ Char(a, i) = Char(b, j)
    THEN 1 + RunLen(a, i + 1, ahi, b, j + 1, bhi)
    ELSE 0

\* SequenceMatcher.find_longest_match on a[alo..ahi], b[blo..bhi] (1-based,
\* inclusive): the longest common block, the earliest in a, then in b
FindLongestMatch(a, alo, ahi, b, blo, bhi) ==
    LET runs == {<<i, j, RunLen(a, i, ahi, b, j, bhi)>> : i \in alo..ahi, j \in blo..bhi}
        best == CHOOSE r \in runs :
                    \A q \in runs :
                        \/ q[3] < r[3]
                        \/ (q[3] = r[3] /\ (r[1] < q[1] \/ (r[1] = q[1] /\ r[2] <= q[2])))
    IN IF alo > ahi \/ blo > bhi THEN <<alo, blo, 0>> ELSE best

\* the total size of SequenceMatcher.get_matching_blocks
RECURSIVE MatchSize(_, _, _, _, _, _)
MatchSize(a, alo, ahi, b, blo, bhi) ==
    LET m == FindLongestMatch(a, alo, ahi, b, blo, bhi)
    IN IF m[3] = 0 THEN 0
       ELSE m[3] + MatchSize(a, alo, m[1] - 1, b, blo, m[2] - 1)
                 + MatchSize(a, m[1] + m[3], ahi, b, m[2] + m[3], bhi)

\* ratio() = 2.0 * M / T >= cutoff, with the cutoff CutoffNum / CutoffDen;
\* real_quick_ratio() is tested first, as get_close_matches does (its
\* quick_ratio() is an upper bound of ratio() and rejects nothing more)
CutoffNum == 6
CutoffDen == 10
MaxSuggestions == 5

Close(x, word) ==
    LET la == Len(x)
        lb == Len(word)
    IN /\ 2 * Min(la, lb) * CutoffDen >= CutoffNum * (la + lb)
       /\ 2 * MatchSize(x, 1, la, word, 1, lb) * CutoffDen >= CutoffNum * (la + lb)

Score(x, word) == [m |-> MatchSize(x, 1, Len(x), word, 1, Len(word)), t |-> Len(x) + Len(word)]

\* heapq.nlargest(n, [(ratio, x)]): by ratio, then by x, descending
RECURSIVE NLargest(_, _, _)
NLargest(S, word, n) ==
    IF S = {} \/ n = 0 THEN <<>>
    ELSE LET top == CHOOSE x \in S : \A y \in S \ {x} :
                        LET sx == Score(x, word)
                            sy == Score(y, word)
                        IN \/ sx.m * sy.t > sy.m * sx.t
                           \/ (sx.m * sy.t = sy.m * sx.t /\ StrLess(y, x))
         IN <<top>> \o NLargest(S \ {top}, word, n - 1)

get_close_matches(word, possibilities) ==
    NLargest({x \in Range(possibilities) : Close(x, word)}, word, MaxSuggestions)

(***************************************************************************)
(* _split_cmd_args and VOShell._resolve                                    *)
(***************************************************************************)
\* (head, args): the first two tokens form the head when they name a command
_split_cmd_args(ln, ci) ==
    LET parts == Split(Strip(ln))
    IN IF parts = <<>> THEN [head |-> "", args |-> <<>>]
       ELSE IF Len(parts) >= 2 /\ Lower(parts[1] \o " " \o parts[2]) \in DOMAIN ci
            THEN [head |-> parts[1] \o " " \o parts[2], args |-> SubSeq(parts, 3, Len(parts))]
            ELSE [head |-> parts[1], args |-> Tail(parts)]

\* sorted(aliases.keys(), key=len, reverse=True): stable, the longest first
RECURSIVE ByLenDesc(_)
ByLenDesc(al) ==
    IF al = <<>> THEN <<>>
    ELSE LET mx == CHOOSE i \in DOMAIN al :
                       /\ \A j \in DOMAIN al : Len(al[j].pattern) <= Len(al[i].pattern)
                       /\ \A j \in DOMAIN al : Len(al[j].pattern) = Len(al[i].pattern) => i <= j
         IN <<al[mx]>> \o ByLenDesc(SelectSeq(al, LAMBDA e : e # al[mx]))

AliasApplies(a, line_lc) == line_lc = a.pattern \/ StartsWith(line_lc, a.pattern \o " ")

\* a faulty variant: no alias is ever expanded
ExpandAlias_Off(ln, al) == ln

\* a faulty variant: the rewritten line is expanded once more
ExpandAlias_Again(ln, al) ==
    LET once(l) ==
            LET hits == SelectSeq(ByLenDesc(al), LAMBDA a : AliasApplies(a, Lower(l)))
            IN IF hits = <<>> THEN l
               ELSE Strip(hits[1].target \o SubSeq(l, Len(hits[1].pattern) + 1, Len(l)))
    IN once(once(ln))

\* the alias expansion of _resolve: the first alias that applies rewrites
\* the line, once
ExpandAlias(ln, al) ==
    LET line_lc == Lower(ln)
        hits == SelectSeq(ByLenDesc(al), LAMBDA a : AliasApplies(a, line_lc))
    IN IF hits = <<>> THEN ln
       ELSE Strip(hits[1].target \o SubSeq(ln, Len(hits[1].pattern) + 1, Len(ln)))

MaxShown == 20

AmbiguousMsg(candidates) ==
    "Ambiguous command. Did you mean:\n  - "
        \o Join(SubSeq(candidates, 1, Min(Len(candidates), MaxShown)), "\n  - ")
        \o (IF Len(candidates) > MaxShown THEN "\n  ... (more)" ELSE "")

UnknownMsg(sug) == "Unknown command. Closest matches:\n  - " \o Join(sug, "\n  - ")

\* a faulty variant: only the names that start with the head are candidates
Candidates_PrefixOnly(cmds, head_lc) ==
    LET hit == SelectSeq(cmds, LAMBDA e : StartsWith(Lower(e.name), head_lc))
    IN [i \in DOMAIN hit |-> hit[i].name]

\* names of the registry, in its order, that start with the head or that
\* the head matches as a glob
Candidates(cmds, head_lc) ==
    LET hit == SelectSeq(cmds, LAMBDA e : \/ StartsWith(Lower(e.name), head_lc)
                                          \/ FnMatch(Lower(e.name), head_lc))
    IN [i \in DOMAIN hit |-> hit[i].name]

NoResult == [key |-> <<>>, val |-> NoVal, args |-> <<>>]

\* a faulty variant: the prefix/glob search comes before the exact hit
ResolveHead_SearchFirst(cmds, ci, idx, head, args) ==
    LET head_lc == Lower(head)
        candidates == Candidates(cmds, head_lc)
    IN IF Len(candidates) = 1
       THEN [key |-> <<candidates[1]>>, val |-> DictGet(cmds, candidates[1]), args |-> args]
       ELSE IF Len(candidates) > 1
       THEN [key |-> <<>>, val |-> Text(AmbiguousMsg(candidates)), args |-> <<>>]
       ELSE IF head_lc \in DOMAIN ci
       THEN [key |-> <<ci[head_lc].orig>>, val |-> ci[head_lc].val, args |-> args]
       ELSE NoResult

ResolveHead(cmds, ci, idx, head, args) ==
    LET head_lc == Lower(head)
        candidates == Candidates(cmds, head_lc)
        sug == get_close_matches(head, idx)
    IN IF head_lc \in DOMAIN ci
       THEN [key |-> <<ci[head_lc].orig>>, val |-> ci[head_lc].val, args |-> args]
       ELSE IF Len(candidates) = 1
       THEN [key |-> <<candidates[1]>>, val |-> DictGet(cmds, candidates[1]), args |-> args]
       ELSE IF Len(candidates) > 1
       THEN [key |-> <<>>, val |-> Text(AmbiguousMsg(candidates)), args |-> <<>>]
       ELSE IF sug # <<>>
       THEN [key |-> <<>>, val |-> Text(UnknownMsg(sug)), args |-> <<>>]
       ELSE NoResult

\* a faulty variant: the head is always the first token and the full line is
\* never looked up
_resolve_FirstTokenHead(cmds, ci, al, idx, ln0) ==
    LET parts == Split(ExpandAlias(Strip(ln0), al))
    IN IF parts = <<>> THEN NoResult
       ELSE ResolveHead(cmds, ci, idx, parts[1], Tail(parts))

\* a faulty variant: _resolve without its full-line exact match
_resolve_NoExactMatch(cmds, ci, al, idx, ln0) ==
    LET ln1 == Strip(ln0)
        ln == ExpandAlias(ln1, al)
        sp == _split_cmd_args(ln, ci)
    IN IF ln1 = "" \/ sp.head = "" THEN NoResult
       ELSE ResolveHead(cmds, ci, idx, sp.head, sp.args)

\* VOShell._resolve(line) -> (key, value, args)
_resolve(cmds, ci, al, idx, ln0) ==
    LET ln1 == Strip(ln0)
        ln == ExpandAlias(ln1, al)
        line_lc == Lower(ln)
        sp == _split_cmd_args(ln, ci)
    IN IF ln1 = "" THEN NoResult
       ELSE IF line_lc \in DOMAIN ci
       THEN [key |-> <<ci[line_lc].orig>>, val |-> ci[line_lc].val, args |-> <<>>]
       ELSE IF sp.head = "" THEN NoResult
       ELSE ResolveHead(cmds, ci, idx, sp.head, sp.args)

(***************************************************************************)
(* os.path on POSIX path names.                                            *)
(***************************************************************************)
\* s.split(sep) for a one-character separator: empty pieces are kept
RECURSIVE SplitOnFrom(_, _, _)
SplitOnFrom(s, from, cuts) ==
    IF cuts = {} THEN <<SubSeq(s, from, Len(s))>>
    ELSE LET j == CHOOSE i \in cuts : \A k \in cuts : i <= k
         IN <<SubSeq(s, from, j - 1)>> \o SplitOnFrom(s, j + 1, cuts \ {j})

SplitOn(s, sep) == SplitOnFrom(s, 1, {i \in 1..Len(s) : Char(s, i) = sep})

Contains(s, c) == \E i \in 1..Len(s) : Char(s, i) = c

isabs(p) == StartsWith(p, "/")

\* os.path.join(a, b) and os.path.join(a, *parts)
join(a, b) ==
    IF isabs(b) THEN b
    ELSE IF a = "" \/ EndsWith(a, "/") THEN a \o b
    ELSE a \o "/" \o b

RECURSIVE JoinAll(_, _)
JoinAll(a, parts) == IF parts = <<>> THEN a ELSE JoinAll(join(a, parts[1]), Tail(parts))

\* os.path.normpath: drop '' and '.', fold 'x/..', keep leading '..' of a
\* relative path, drop '..' at the root
RECURSIVE NormComps(_, _, _)
NormComps(comps, acc, abs) ==
    IF comps = <<>> THEN acc
    ELSE LET c == Head(comps)
             rest == Tail(comps)
         IN IF c = "" \/ c = "." THEN NormComps(rest, acc, abs)
            ELSE IF c # ".." THEN NormComps(rest, Append(acc, c), abs)
            ELSE IF acc # <<>> /\ acc[Len(acc)] # ".."
                 THEN NormComps(rest, SubSeq(acc, 1, Len(acc) - 1), abs)
            ELSE IF abs THEN NormComps(rest, acc, abs)
            ELSE NormComps(rest, Append(acc, ".."), abs)

normpath(p) ==
    LET body == Join(NormComps(SplitOn(p, "/"), <<>>, isabs(p)), "/")
    IN IF isabs(p) THEN "/" \o body ELSE IF body = "" THEN "." ELSE body

\* os.getcwd(): the directory the emulator was started in
CWD == "/w"

abspath(p) == normpath(join(CWD, p))

\* the components of a normalised absolute path
Comps(p) == SelectSeq(SplitOn(p, "/"), LAMBDA c : c # "")

RECURSIVE CommonLen(_, _)
CommonLen(a, b) ==
    IF a = <<>> \/ b = <<>> \/ Head(a) # Head(b) THEN 0 ELSE 1 + CommonLen(Tail(a), Tail(b))

\* os.path.relpath(path, start)
relpath(path, start) ==
    The({ LET i == CommonLen(start_list, path_list)
              rel_list == [k \in 1..(Len(start_list) - i) |-> ".."]
                              \o SubSeq(path_list, i + 1, Len(path_list))
          IN IF rel_list = <<>> THEN "." ELSE Join(rel_list, "/")
          : start_list \in {Comps(abspath(start))}, path_list \in {Comps(abspath(path))} })

\* os.path.split(p): (head, tail) around the last '/'
RECURSIVE LastSlashFrom(_, _)
LastSlashFrom(p, i) ==
    IF i = 0 \/ Char(p, i) = "/" THEN i ELSE LastSlashFrom(p, i - 1)

\* p.rfind('/') + 1
LastSlash(p) == LastSlashFrom(p, Len(p))

RECURSIVE RStripSlash(_)
RStripSlash(s) == IF s # "" /\ EndsWith(s, "/") THEN RStripSlash(SubSeq(s, 1, Len(s) - 1)) ELSE s

split(p) ==
    LET i == LastSlash(p)
        head == SubSeq(p, 1, i)
        tail == SubSeq(p, i + 1, Len(p))
    IN [head |-> IF RStripSlash(head) = "" THEN head ELSE RStripSlash(head), tail |-> tail]

dirname(p) == split(p).head

(***************************************************************************)
(* The host file system: a set of directories and a map of files, both     *)
(* keyed by normalised absolute path.  A path name is looked up component  *)
(* by component as the kernel does: every component but the last must be   *)
(* an existing directory, and '..' steps to the parent of the directory    *)
(* reached.                                                                *)
(***************************************************************************)
RECURSIVE Walk(_, _, _)
Walk(ds, cur, comps) ==
    IF comps = <<>> THEN <<cur>>
    ELSE IF cur \notin ds THEN <<>>
    ELSE LET c == Head(comps)
         IN IF c = "" \/ c = "." THEN Walk(ds, cur, Tail(comps))
            ELSE IF c = ".." THEN Walk(ds, dirname(cur), Tail(comps))
            ELSE Walk(ds, join(cur, c), Tail(comps))

\* <<where the path name leads>>, or <<>> when the walk fails
Lookup(ds, p) == Walk(ds, IF isabs(p) THEN "/" ELSE CWD, SplitOn(p, "/"))

isdir(ds, p) == LET at == Lookup(ds, p) IN at # <<>> /\ at[1] \in ds

isfile(fs, ds, p) == LET at == Lookup(ds, p) IN at # <<>> /\ at[1] \in DOMAIN fs

exists(fs, ds, p) == LET at == Lookup(ds, p) IN at # <<>> /\ at[1] \in ds \cup DOMAIN fs

\* os.mkdir(p): the directories afterwards, or the error raised
mkdir(fs, ds, p) ==
    The({ The({ IF parent = <<>> \/ parent[1] \notin ds
                THEN [err |-> IF parent # <<>> /\ parent[1] \in DOMAIN fs
                              THEN "[Errno 20] Not a directory"
                              ELSE "[Errno 2] No such file or directory",
                      at |-> p, dirs |-> ds]
                ELSE IF sp.tail \in {"", ".", ".."}
                        \/ join(parent[1], sp.tail) \in ds \cup DOMAIN fs
                THEN [err |-> "[Errno 17] File exists", at |-> p, dirs |-> ds]
                ELSE [err |-> "", at |-> p, dirs |-> ds \cup {join(parent[1], sp.tail)}]
                : parent \in {Lookup(ds, IF sp.head = "" THEN "." ELSE sp.head)} })
          : sp \in {split(IF RStripSlash(p) = "" THEN p ELSE RStripSlash(p))} })

\* os.makedirs(name, exist_ok=True): make the missing parents first (a
\* FileExistsError from there is passed over), then the leaf; an error of
\* the leaf's mkdir is passed over when the leaf is a directory
RECURSIVE makedirs(_, _, _)
makedirs(fs, ds, name) ==
    The({ The({ The({ IF up.err # "" /\ up.err # "[Errno 17] File exists" THEN up
                      ELSE IF climb /\ sp.tail = "."
                      THEN [err |-> "", at |-> name, dirs |-> up.dirs]
                      ELSE The({ IF made.err = "" \/ isdir(up.dirs, name)
                                 THEN [err |-> "", at |-> name, dirs |-> made.dirs]
                                 ELSE made
                                 : made \in {mkdir(fs, up.dirs, name)} })
                      : up \in {IF climb THEN makedirs(fs, ds, sp.head)
                                ELSE [err |-> "", at |-> name, dirs |-> ds]} })
                : climb \in {sp.head # "" /\ sp.tail # "" /\ ~exists(fs, ds, sp.head)} })
          : sp \in {IF split(name).tail = "" THEN split(split(name).head) ELSE split(name)} })

(***************************************************************************)
(* The emulator's globals and its handlers.  A handler is an operator      *)
(* from its argument list to an outcome: what it returns (or the exception *)
(* that escapes it) and the globals and file system it leaves behind.      *)
(***************************************************************************)
BASE_STATE_DIR == join(CWD, "vos_state")

STATE_DIR == join(BASE_STATE_DIR, "filesystem")

BATCH_ROOT == JoinAll(BASE_STATE_DIR, <<"vos_internals", "batches">>)

\* the default argument of load_txt_commands, relative to os.getcwd()
TXT_PATH == "vos_commands.txt"

\* the directories present once the module has been imported
StartDirs == {"/", CWD, BASE_STATE_DIR, STATE_DIR, join(BASE_STATE_DIR, "vos_internals"), BATCH_ROOT}

TextFile(lines) == [kind |-> "text", lines |-> lines]

Returned(s) == [t |-> "str", v |-> s]

Raised(e) == [t |-> "raise", v |-> e]

\* the outcome of a handler that returns s and changes nothing
Keep(s) == [ret |-> Returned(s), CURRENT_DIR |-> CURRENT_DIR, LAST_ERROR |-> LAST_ERROR,
            dirs |-> dirs, files |-> files]

_ok(msg) == "[OK] " \o msg

\* a faulty variant: the message is returned but not recorded
_err_Untracked(msg) == Keep("[ERR] " \o msg)

_err(msg) == [Keep("[ERR] " \o msg) EXCEPT !.LAST_ERROR = <<msg>>]

IsErr(ret) == ret.t = "str" /\ StartsWith(ret.v, "[ERR] ")

resolve_state_path(cd, filename) ==
    LET fname == Strip(filename)
        here == IF cd # "" THEN join(STATE_DIR, cd) ELSE STATE_DIR
        parts == SelectSeq(SplitOn(fname, ">"), LAMBDA p : p # "")
        base_parts == IF cd # "" THEN SplitOn(cd, "/") ELSE <<>>
    IN IF filename = "" THEN here
       ELSE IF isabs(fname) THEN fname
       ELSE IF Contains(fname, ">")
            THEN IF StartsWith(fname, ">") THEN JoinAll(STATE_DIR, parts)
                 ELSE JoinAll(STATE_DIR, base_parts \o parts)
       ELSE join(here, fname)

\* CURRENT_DIR in VOS notation
VosDir(cd) == IF cd # "" THEN ">" \o Join(SplitOn(cd, "/"), ">") ELSE ">"

h_create_dir(args) ==
    IF Len(args) # 1 THEN _err("usage: create_dir <path>")
    ELSE The({ The({ IF made.err = ""
                     THEN [Keep(_ok("created directory: " \o path)) EXCEPT !.dirs = made.dirs]
                     ELSE [_err("create_dir: " \o made.err \o ": '" \o made.at \o "'")
                              EXCEPT !.dirs = made.dirs]
                     : made \in {makedirs(files, dirs, path)} })
               : path \in {resolve_state_path(CURRENT_DIR, args[1])} })

\* os.remove(path) inside the try block of h_delete_file
h_delete_file(args) ==
    IF Len(args) # 1 THEN _err("usage: delete_file <path>")
    ELSE The({ The({ IF at # <<>> /\ at[1] \in DOMAIN files
                     THEN [Keep(_ok("deleted " \o path))
                              EXCEPT !.files = [p \in DOMAIN files \ {at[1]} |-> files[p]]]
                     ELSE IF at # <<>> /\ at[1] \in dirs
                     THEN _err("delete_file: [Errno 21] Is a directory: '" \o path \o "'")
                     ELSE IF isfile(files, dirs, dirname(path))
                     THEN _err("delete_file: [Errno 20] Not a directory: '" \o path \o "'")
                     ELSE _err("delete_file: [Errno 2] No such file or directory: '" \o path \o "'")
                     : at \in {Lookup(dirs, path)} })
               : path \in {resolve_state_path(CURRENT_DIR, args[1])} })

h_display_current_dir(args) ==
    IF args # <<>> THEN _err("usage: display_current_dir")
    ELSE Keep("Current directory: " \o VosDir(CURRENT_DIR))

\* a faulty variant: a missing target is created, as os.makedirs(new_path,
\* exist_ok=True) would
h_change_current_dir_Creates(args) ==
    IF Len(args) # 1 THEN _err("usage: change_current_dir <path>")
    ELSE The({ The({ IF made.err # ""
                     THEN _err("change_current_dir: " \o made.err \o ": '" \o made.at \o "'")
                     ELSE [Keep(_ok("current directory set to "
                                       \o VosDir(IF rel = "." THEN "" ELSE rel)))
                              EXCEPT !.CURRENT_DIR = IF rel = "." THEN "" ELSE rel,
                                     !.dirs = made.dirs]
                     : made \in {makedirs(files, dirs, new_path)},
                       rel \in {relpath(abspath(new_path), abspath(STATE_DIR))} })
               : new_path \in {resolve_state_path(CURRENT_DIR, args[1])} })

h_change_current_dir(args) ==
    IF Len(args) # 1 THEN _err("usage: change_current_dir <path>")
    ELSE The({ IF ~isdir(dirs, new_path)
               THEN _err("change_current_dir: target directory does not exist: " \o new_path)
               ELSE The({ IF ~StartsWith(abs_new, abs_state)
                          THEN _err("change_current_dir: target " \o new_path
                                       \o " is outside STATE_DIR")
                          ELSE The({ [Keep(_ok("current directory set to "
                                                  \o VosDir(IF rel = "." THEN "" ELSE rel)))
                                         EXCEPT !.CURRENT_DIR = IF rel = "." THEN "" ELSE rel]
                                     : rel \in {relpath(abs_new, abs_state)} })
                          : abs_state \in {abspath(STATE_DIR)}, abs_new \in {abspath(new_path)} })
               : new_path \in {resolve_state_path(CURRENT_DIR, args[1])} })

h_display_error(args) ==
    IF args # <<>> THEN _err("usage: display_error")
    ELSE IF LAST_ERROR # <<>> /\ LAST_ERROR[1] # "" THEN Keep("Last error: " \o LAST_ERROR[1])
    ELSE Keep("No errors.")

\* decimal text of a natural number
Digits == "0123456789"

RECURSIVE ToStr(_)
ToStr(n) == IF n < 10 THEN Char(Digits, n + 1) ELSE ToStr(n \div 10) \o Char(Digits, (n % 10) + 1)

\* the lines of vos_commands.txt, none when there is no such file
TxtLines(fs, ds) ==
    IF isfile(fs, ds, TXT_PATH) THEN fs[Lookup(ds, TXT_PATH)[1]].lines ELSE <<>>

\* load_txt_commands() on the file system: open() raises when the name is
\* a directory
ReadTxtCommands(fs, ds) ==
    IF isdir(ds, TXT_PATH) THEN Raised("IsADirectoryError")
    ELSE [t |-> "names", v |-> load_txt_commands(TxtLines(fs, ds))]

\* the report counts the names of the text file; the stubs are the names
\* a fresh VOShell registers by register_bulk
h_show_commands_status(args) ==
    IF args # <<>> THEN _err("usage: show commands status")
    ELSE The({ IF names.t = "raise" THEN [Keep("") EXCEPT !.ret = names]
               ELSE The({ The({ Keep("VOS commands report: " \o ToStr(Len(names.v)) \o " total, "
                                       \o ToStr(Len(names.v) - Len(simulated)) \o " implemented, "
                                       \o ToStr(Len(simulated)) \o " simulated")
                                : simulated \in {SelectSeq(names.v, LAMBDA n : n \in STUB_COMMANDS)} })
                          : STUB_COMMANDS \in
                              { The({ {n \in Keys(tmp_shell) : DictGet(tmp_shell, n).t = "stub"}
                                      : tmp_shell \in {ShellCommands(TxtLines(files, dirs), yaml_pack)} }) } })
               : names \in {ReadTxtCommands(files, dirs)} })

(***************************************************************************)
(* What every other handler does when it is called without arguments.      *)
(***************************************************************************)
\* the handlers that open with "if not args or len(args) != n: return
\* _err(usage)" (h_clone_dir and h_clone_file hand over to h_copy_dir and
\* h_copy_file), and h_display_line, which opens with "if not args"
NEEDS_ARGS ==
    <<      [h |-> "h_create_file", n |-> 1, usage |-> "usage: create_file <path>"],
      [h |-> "h_copy_file", n |-> 2, usage |-> "usage: copy_file <src> <dst>"],
      [h |-> "h_move_file", n |-> 2, usage |-> "usage: move_file <src> <dst>"],
      [h |-> "h_compare_files", n |-> 2, usage |-> "usage: compare_files <a> <b>"],
      [h |-> "h_delete_file", n |-> 1, usage |-> "usage: delete_file <path>"],
      [h |-> "h_copy_dir", n |-> 2, usage |-> "usage: copy_dir <src> <dst>"],
      [h |-> "h_move_dir", n |-> 2, usage |-> "usage: move_dir <src> <dst>"],
      [h |-> "h_delete_dir", n |-> 1, usage |-> "usage: delete_dir <path>"],
      [h |-> "h_rename", n |-> 2, usage |-> "usage: rename <src> <dst>"],
      [h |-> "h_display_file", n |-> 1, usage |-> "usage: display_file <path>"],
      [h |-> "h_display_file_status", n |-> 1, usage |-> "usage: display_file_status <path>"],
      [h |-> "h_dump_file", n |-> 1, usage |-> "usage: dump_file <path>"],
      [h |-> "h_add_library_path", n |-> 1, usage |-> "usage: add_library_path <path>"],
      [h |-> "h_delete_library_path", n |-> 1, usage |-> "usage: delete_library_path <path>"],
      [h |-> "h_set_language", n |-> 1, usage |-> "usage: set_language <language_code>"],
      [h |-> "h_set_time_zone", n |-> 1, usage |-> "usage: set_time_zone <time_zone>"],
      [h |-> "h_set_line_wrap_width", n |-> 1, usage |-> "usage: set_line_wrap_width <number>"],
      [h |-> "h_add_profile", n |-> 1, usage |-> "usage: add_profile <name>"],
      [h |-> "h_compare_dirs", n |-> 2, usage |-> "usage: compare_dirs <dir1> <dir2>"],
      [h |-> "h_clone_dir", n |-> 2, usage |-> "usage: copy_dir <src> <dst>"],
      [h |-> "h_clone_file", n |-> 2, usage |-> "usage: copy_file <src> <dst>"],
      [h |-> "h_locate_files", n |-> 1, usage |-> "usage: locate_files <pattern>"],
      [h |-> "h_locate_large_files", n |-> 1, usage |-> "usage: locate_large_files <size>"],
      [h |-> "h_locate_large_dirs", n |-> 1, usage |-> "usage: locate_large_dirs <size>"],
      [h |-> "h_display_line", n |-> 1, usage |-> "usage: display_line <text>"] >>

\* the handlers that answer an empty argument list from the emulator's own
\* globals, and what they answer in the state the module is imported in
\* (LIBRARY_PATHS and NOTICES empty, CURRENT_PROFILE "default")
ANSWERS ==
    << [h |-> "h_list_library_paths", text |-> "(no library paths configured)"],
       [h |-> "h_profile", text |-> "Current profile: default"],
       [h |-> "h_display_current_module", text |-> "Current module: vos-emulator"],
       [h |-> "h_display_date_time", text |-> "2026-01-01 00:00:00"],
       [h |-> "h_display_notices", text |-> "(no notices)"] >>

\* the handlers that query the host inside a try block: when the query
\* fails they return _err(prefix: ...), or a fallback text when the except
\* clause has no _err (prefix "")
HOST_QUERIES ==
    << [h |-> "h_list", prefix |-> "list"],
       [h |-> "h_display_dir_status", prefix |-> "display_dir_status"],
       [h |-> "h_display_disk_usage", prefix |-> "display_disk_usage"],
       [h |-> "h_list_users", prefix |-> ""],
       [h |-> "h_display_device_info", prefix |-> "display_device_info"],
       [h |-> "h_display_disk_info", prefix |-> "display_disk_info"],
       [h |-> "h_display_system_usage", prefix |-> "display_system_usage"],
       [h |-> "h_display_terminal_parameters", prefix |-> ""] >>

Row(table, h) == CHOOSE r \in Range(table) : r.h = h

Handlers(table) == {table[i].h : i \in DOMAIN table}

\* handler h called with []; fault tells whether the host query it makes
\* (if any) fails
NoArgs(h, fault) ==
    IF h \in Handlers(NEEDS_ARGS) THEN _err(Row(NEEDS_ARGS, h).usage)
    ELSE IF h \in Handlers(ANSWERS) THEN Keep(Row(ANSWERS, h).text)
    ELSE IF fault /\ Row(HOST_QUERIES, h).prefix # ""
         THEN _err(Row(HOST_QUERIES, h).prefix \o ": (host error)")
    ELSE Keep("(" \o h \o " output)")

(***************************************************************************)
(* The batch job store: one JSON file per job under BATCH_ROOT/<queue>/.   *)
(* None is <<>> and a present value v is <<v>>.                            *)
(***************************************************************************)
BOOL_FLAGS == {"-privileged", "-no_restart", "-notify"}

VALUE_OPTIONS == {"-process_name", "-output_path", "-process_priority", "-queue_priority",
                  "-queue", "-module", "-current_dir", "-defer_until", "-control", "-after",
                  "-cpu_limit"}

RECURSIVE LStripDash(_)
LStripDash(s) == IF s # "" /\ Head(s) = "-" THEN LStripDash(Tail(s)) ELSE s

RECURSIVE DashToUnderscore(_)
DashToUnderscore(s) ==
    IF s = "" THEN ""
    ELSE (IF Head(s) = "-" THEN "_" ELSE Head(s)) \o DashToUnderscore(Tail(s))

\* token.lstrip('-').replace('-', '_')
OptKey(token) == DashToUnderscore(LStripDash(token))

OptSet(opts, k, v) == [x \in DOMAIN opts \cup {k} |-> IF x = k THEN v ELSE opts[x]]

\* opts.get(k)
OptGet(opts, k) == IF k \in DOMAIN opts THEN <<opts[k]>> ELSE <<>>

\* bool(opts.get(k)) for a flag
OptFlag(opts, k) == k \in DOMAIN opts /\ opts[k] = "True"

RECURSIVE ParseFrom(_, _, _, _)
ParseFrom(args, i, cmd_parts, opts) ==
    IF i > Len(args)
    THEN IF cmd_parts = <<>>
         THEN [cmd |-> <<>>, opts |-> <<>>, err |-> <<"missing command line">>]
         ELSE [cmd |-> <<Join(cmd_parts, " ")>>, opts |-> opts, err |-> <<>>]
    ELSE LET token == args[i]
         IN IF ~StartsWith(token, "-") THEN ParseFrom(args, i + 1, Append(cmd_parts, token), opts)
            ELSE IF token \in BOOL_FLAGS
                 THEN ParseFrom(args, i + 1, cmd_parts, OptSet(opts, OptKey(token), "True"))
            ELSE IF token \in VALUE_OPTIONS
                 THEN IF i + 1 > Len(args)
                      THEN [cmd |-> <<>>, opts |-> <<>>, err |-> <<"missing value for " \o token>>]
                      ELSE ParseFrom(args, i + 2, cmd_parts, OptSet(opts, OptKey(token), args[i + 1]))
            ELSE [cmd |-> <<>>, opts |-> <<>>, err |-> <<"unknown option " \o token>>]

\* a faulty variant: options that are not recognised are skipped
_parse_batch_arguments_Lenient(args) ==
    ParseFrom(SelectSeq(args, LAMBDA t : ~StartsWith(t, "-") \/ t \in BOOL_FLAGS \cup VALUE_OPTIONS),
              1, <<>>, <<>>)

_parse_batch_arguments(args) == ParseFrom(args, 1, <<>>, <<>>)

IsAlnum(c) == c \in DOMAIN LowerTab \/ c \in DOMAIN UpperTab \/ Contains(Digits, c)

\* s.strip(chars)
RECURSIVE StripChars(_, _)
StripChars(s, chars) ==
    IF s # "" /\ Contains(chars, Head(s)) THEN StripChars(Tail(s), chars)
    ELSE IF s # "" /\ Contains(chars, Char(s, Len(s))) THEN StripChars(SubSeq(s, 1, Len(s) - 1), chars)
    ELSE s

RECURSIVE KeepNameChars(_)
KeepNameChars(s) ==
    IF s = "" THEN ""
    ELSE (IF IsAlnum(Head(s)) \/ Head(s) \in {"_", "-"} THEN Head(s) ELSE "")
            \o KeepNameChars(Tail(s))

LastOf(sq) == sq[Len(sq)]

MaxNameLen == 32

\* the name, or <<>> when split()[0] raises IndexError on a blank line
_derive_process_name(command_line) ==
    LET words == Split(command_line)
        unquoted == StripChars(words[1], "'\"")
        vos == IF Contains(unquoted, ">") THEN LastOf(SplitOn(unquoted, ">")) ELSE unquoted
        basename == LastOf(SplitOn(vos, "/"))
        stem == IF Contains(basename, ".") THEN SplitOn(basename, ".")[1] ELSE basename
        name == KeepNameChars(stem)
    IN IF command_line = "" THEN <<"batch">>
       ELSE IF words = <<>> THEN <<>>
       ELSE <<SubSeq(IF name = "" THEN "batch" ELSE name, 1, Min(Len(IF name = "" THEN "batch" ELSE name), MaxNameLen))>>

RECURSIVE DigitsValue(_, _)
DigitsValue(s, acc) ==
    IF s = "" THEN acc
    ELSE DigitsValue(Tail(s), 10 * acc + (CHOOSE d \in 0..9 : Char(Digits, d + 1) = Head(s)))

AllDigits(s) == s # "" /\ \A i \in 1..Len(s) : Contains(Digits, Char(s, i))

\* int(s): <<n>>, or <<>> when int() raises ValueError
IntOf(s) ==
    LET t == Strip(s)
        signed == t # "" /\ Head(t) \in {"+", "-"}
        body == IF signed THEN Tail(t) ELSE t
    IN IF ~AllDigits(body) THEN <<>>
       ELSE IF signed /\ Head(t) = "-" THEN <<0 - DigitsValue(body, 0)>>
       ELSE <<DigitsValue(body, 0)>>

\* a faulty variant: the base name is taken whether or not it is free
FreeName_Base(fs, ds, queue_dir, base, counter) == join(queue_dir, base \o ".job")

\* the while loop of _generate_unique_job_path: the first of name.job,
\* name_1.job, name_2.job, ... that does not exist
RECURSIVE FreeName(_, _, _, _, _)
FreeName(fs, ds, queue_dir, base, counter) ==
    LET filename == IF counter = 0 THEN base \o ".job"
                    ELSE base \o "_" \o ToStr(counter) \o ".job"
    IN IF exists(fs, ds, join(queue_dir, filename))
       THEN FreeName(fs, ds, queue_dir, base, counter + 1)
       ELSE join(queue_dir, filename)

\* a faulty variant: the name is taken without the loop that looks for a
\* free one
_generate_unique_job_path_NoLoop(fs, ds, queue_name, process_name) ==
    The({ [err |-> made.err, at |-> made.at, dirs |-> made.dirs,
           path |-> IF made.err = ""
                    THEN join(join(BATCH_ROOT, queue_name), process_name \o ".job")
                    ELSE ""]
          : made \in {makedirs(fs, ds, join(BATCH_ROOT, queue_name))} })

\* the path chosen and the directories left by os.makedirs(queue_dir); err
\* is the error makedirs raised, if any
_generate_unique_job_path(fs, ds, queue_name, process_name) ==
    The({ [err |-> made.err, at |-> made.at, dirs |-> made.dirs,
           path |-> IF made.err = ""
                    THEN FreeName(fs, made.dirs, join(BATCH_ROOT, queue_name), process_name, 0)
                    ELSE ""]
          : made \in {makedirs(fs, ds, join(BATCH_ROOT, queue_name))} })

\* open(path, 'w') succeeds when the directory of the name exists and the
\* name is not a directory
CanWrite(ds, path) == LET at == Lookup(ds, path) IN at # <<>> /\ at[1] \notin ds

\* the record h_batch builds of the request
job_info(command_line, opts, process_name) ==
    [kind |-> "job",
     command_line |-> command_line,
     process_name |-> process_name,
     queue_name |-> IF "queue" \in DOMAIN opts THEN opts["queue"] ELSE "normal",
     process_priority |-> IF "process_priority" \in DOMAIN opts
                          THEN IntOf(opts["process_priority"]) ELSE <<>>,
     queue_priority |-> IF "queue_priority" \in DOMAIN opts
                        THEN IntOf(opts["queue_priority"]) ELSE <<4>>,
     privileged |-> OptFlag(opts, "privileged"),
     restart |-> ~OptFlag(opts, "no_restart"),
     notify |-> OptFlag(opts, "notify"),
     output_path |-> OptGet(opts, "output_path"),
     module |-> OptGet(opts, "module"),
     current_dir |-> OptGet(opts, "current_dir"),
     defer_until |-> OptGet(opts, "defer_until"),
     control_file |-> OptGet(opts, "control"),
     after |-> OptGet(opts, "after"),
     cpu_limit |-> OptGet(opts, "cpu_limit"),
     timestamp |-> now]

\* the end of h_batch: the job path is generated outside the try block, the
\* record is written inside it
StoreJob(job) ==
    The({ IF gen.err # ""
          THEN [Keep("") EXCEPT !.ret = Raised(gen.err \o ": '" \o gen.at \o "'"),
                                !.dirs = gen.dirs]
          ELSE IF ~CanWrite(gen.dirs, gen.path)
          THEN [_err("batch: failed to store job: [Errno 2] No such file or directory: '"
                        \o gen.path \o "'") EXCEPT !.dirs = gen.dirs]
          ELSE [Keep(_ok("queued batch request " \o job.process_name \o " in queue '"
                            \o job.queue_name \o "'"))
                   EXCEPT !.dirs = gen.dirs,
                          !.files = The({ [p \in DOMAIN files \cup {job_path} |->
                                              IF p = job_path THEN job ELSE files[p]]
                                          : job_path \in {Lookup(gen.dirs, gen.path)[1]} })]
          : gen \in {_generate_unique_job_path(files, dirs, job.queue_name, job.process_name)} })

h_batch(args) ==
    The({ IF parsed.err # <<>> THEN _err("batch: " \o parsed.err[1])
          ELSE The({ IF name = <<>> THEN [Keep("") EXCEPT !.ret = Raised("IndexError")]
                     ELSE IF "process_priority" \in DOMAIN parsed.opts
                             /\ IntOf(parsed.opts["process_priority"]) = <<>>
                     THEN _err("batch: invalid process_priority")
                     ELSE IF "queue_priority" \in DOMAIN parsed.opts
                             /\ IntOf(parsed.opts["queue_priority"]) = <<>>
                     THEN _err("batch: invalid queue_priority")
                     ELSE StoreJob(job_info(parsed.cmd[1], parsed.opts, name[1]))
                     : name \in {IF OptGet(parsed.opts, "process_name") \notin {<<>>, <<"">>}
                                 THEN OptGet(parsed.opts, "process_name")
                                 ELSE _derive_process_name(parsed.cmd[1])} })
          : parsed \in {_parse_batch_arguments(args)} })

\* os.listdir(d): the names directly under the directory d
listdir(fs, ds, d) ==
    LET under == d \o "/"
    IN {e \in {SubSeq(p, Len(under) + 1, Len(p)) :
                  p \in {q \in ds \cup DOMAIN fs : Len(q) > Len(under) /\ StartsWith(q, under)}} :
           ~Contains(e, "/")}

\* the '.job' entries the nested loops of the batch commands visit, as
\* <<queue_name, fname>>: only directories directly under BATCH_ROOT are
\* queues
JobEntries(fs, ds) ==
    UNION {{<<q, f>> : f \in {g \in listdir(fs, ds, join(BATCH_ROOT, q)) : EndsWith(g, ".job")}} :
              q \in {q0 \in listdir(fs, ds, BATCH_ROOT) : join(BATCH_ROOT, q0) \in ds}}

JobFile(e) == join(join(BATCH_ROOT, e[1]), e[2])

\* json.load succeeds on the files h_batch wrote
Readable(fs, e) == JobFile(e) \in DOMAIN fs /\ fs[JobFile(e)].kind = "job"

\* fname[:-4]
BaseName(fname) == SubSeq(fname, 1, Len(fname) - 4)

\* p_name as h_cancel_batch_requests takes it
PName(fs, e) == IF Readable(fs, e) THEN fs[JobFile(e)].process_name ELSE BaseName(e[2])

MatchesAny(p_name, patterns) ==
    \E i \in DOMAIN patterns : FnMatch(Lower(p_name), Lower(patterns[i]))

Without(fs, gone) == [p \in DOMAIN fs \ gone |-> fs[p]]

\* a faulty variant: cancel passes over the files that do not parse, as
\* update does
h_cancel_batch_requests_SkipUnreadable(args) ==
    IF args = <<>> THEN _err("usage: cancel_batch_requests <process_name(s)>")
    ELSE LET matched == {e \in JobEntries(files, dirs) :
                            Readable(files, e) /\ MatchesAny(PName(files, e), args)}
             removed == {JobFile(e) : e \in matched} \cap DOMAIN files
         IN [Keep(_ok("cancelled " \o ToStr(Cardinality(removed)) \o " batch request(s)"))
                EXCEPT !.files = Without(files, removed)]

h_cancel_batch_requests(args) ==
    IF args = <<>> THEN _err("usage: cancel_batch_requests <process_name(s)>")
    ELSE IF ~isdir(dirs, BATCH_ROOT)
         THEN _err("cancel_batch_requests: [Errno 2] No such file or directory: '"
                      \o BATCH_ROOT \o "'")
    ELSE LET matched == {e \in JobEntries(files, dirs) : MatchesAny(PName(files, e), args)}
             \* os.remove fails on a directory; the failure is passed over
             removed == {JobFile(e) : e \in matched} \cap DOMAIN files
         IN [Keep(_ok("cancelled " \o ToStr(Cardinality(removed)) \o " batch request(s)"))
                EXCEPT !.files = Without(files, removed)]

\* the while loop of h_update_batch_requests over its arguments
RECURSIVE UpdateArgs(_, _, _, _, _)
UpdateArgs(args, i, patterns, new_qpri, new_ppri) ==
    IF i > Len(args)
    THEN [err |-> <<>>, patterns |-> patterns, new_qpri |-> new_qpri, new_ppri |-> new_ppri]
    ELSE LET opt == args[i]
             bad(msg) == [err |-> <<msg>>, patterns |-> patterns, new_qpri |-> new_qpri,
                          new_ppri |-> new_ppri]
         IN IF ~StartsWith(opt, "-") THEN UpdateArgs(args, i + 1, Append(patterns, opt), new_qpri, new_ppri)
            ELSE IF opt = "-queue_priority"
                 THEN IF i + 1 > Len(args)
                      THEN bad("update_batch_requests: missing value for -queue_priority")
                      ELSE IF IntOf(args[i + 1]) = <<>>
                      THEN bad("update_batch_requests: invalid queue_priority")
                      ELSE UpdateArgs(args, i + 2, patterns, IntOf(args[i + 1]), new_ppri)
            ELSE IF opt = "-process_priority"
                 THEN IF i + 1 > Len(args)
                      THEN bad("update_batch_requests: missing value for -process_priority")
                      ELSE IF IntOf(args[i + 1]) = <<>>
                      THEN bad("update_batch_requests: invalid process_priority")
                      ELSE UpdateArgs(args, i + 2, patterns, new_qpri, IntOf(args[i + 1]))
            ELSE bad("update_batch_requests: unknown option " \o opt)

\* a faulty variant: an update also restamps the job
Updated_Restamp(job, new_qpri, new_ppri) ==
    [job EXCEPT !.queue_priority = IF new_qpri # <<>> THEN new_qpri ELSE @,
                !.process_priority = IF new_ppri # <<>> THEN new_ppri ELSE @,
                !.timestamp = @ + 1]

\* the job with the new priorities applied
Updated(job, new_qpri, new_ppri) ==
    [job EXCEPT !.queue_priority = IF new_qpri # <<>> THEN new_qpri ELSE @,
                !.process_priority = IF new_ppri # <<>> THEN new_ppri ELSE @]

h_update_batch_requests(args) ==
    The({ IF args = <<>> THEN _err("usage: update_batch_requests <process_name(s)> [options]")
          ELSE IF a.err # <<>> THEN _err(a.err[1])
          ELSE IF a.patterns = <<>> \/ (a.new_qpri = <<>> /\ a.new_ppri = <<>>)
          THEN _err("update_batch_requests: specify process names and at least one priority option")
          ELSE IF ~isdir(dirs, BATCH_ROOT)
          THEN _err("update_batch_requests: [Errno 2] No such file or directory: '"
                       \o BATCH_ROOT \o "'")
          ELSE The({ [Keep(_ok("updated " \o ToStr(Cardinality(changed)) \o " batch request(s)"))
                         EXCEPT !.files = [p \in DOMAIN files |->
                                              IF p \in changed
                                              THEN Updated(files[p], a.new_qpri, a.new_ppri)
                                              ELSE files[p]]]
                     : changed \in
                         { {p \in {JobFile(e) : e \in {x \in JobEntries(files, dirs) :
                                       Readable(files, x)
                                       /\ MatchesAny(PName(files, x), a.patterns)}} :
                               Updated(files[p], a.new_qpri, a.new_ppri) # files[p]} } })
          : a \in {UpdateArgs(args, 1, <<>>, <<>>, <<>>)} })

\* str(cell) of a priority: the number, or None
PriText(pri) ==
    IF pri = <<>> THEN "None"
    ELSE IF pri[1] < 0 THEN "-" \o ToStr(0 - pri[1]) ELSE ToStr(pri[1])

\* the rows of display_batch_status, in sorted order of queue and file name
StatusRow(fs, e) ==
    IF Readable(fs, e)
    THEN <<e[1], fs[JobFile(e)].process_name, PriText(fs[JobFile(e)].queue_priority),
           PriText(fs[JobFile(e)].process_priority), "pending">>
    ELSE <<e[1], BaseName(e[2]), "", "", "unreadable">>

RECURSIVE SortedEntries(_)
SortedEntries(S) ==
    IF S = {} THEN <<>>
    ELSE LET m == CHOOSE x \in S : \A y \in S \ {x} :
                      StrLess(x[1], y[1]) \/ (x[1] = y[1] /\ StrLess(x[2], y[2]))
         IN <<m>> \o SortedEntries(S \ {m})

\* a faulty variant: the listing leaves out the files that do not parse
BatchRows_SkipUnreadable(fs, ds, args) ==
    LET shown == {e \in JobEntries(fs, ds) :
                     Readable(fs, e) /\ (args = <<>> \/ args[1] = "" \/ e[1] = args[1])}
        sorted == SortedEntries(shown)
    IN [i \in DOMAIN sorted |-> StatusRow(fs, sorted[i])]

BatchRows(fs, ds, args) ==
    LET shown == {e \in JobEntries(fs, ds) : args = <<>> \/ args[1] = "" \/ e[1] = args[1]}
        sorted == SortedEntries(shown)
    IN [i \in DOMAIN sorted |-> StatusRow(fs, sorted[i])]

Max(a, b) == IF a > b THEN a ELSE b

RECURSIVE Spaces(_)
Spaces(n) == IF n <= 0 THEN "" ELSE " " \o Spaces(n - 1)

RECURSIVE Dashes(_)
Dashes(n) == IF n <= 0 THEN "" ELSE "-" \o Dashes(n - 1)

\* table(headers, rows): every column padded to its widest cell
table(headers, rows) ==
    LET RECURSIVE width(_, _)
        width(col, r) == IF r = 0 THEN Len(headers[col])
                         ELSE Max(Len(rows[r][col]), width(col, r - 1))
        cells(r) == [col \in DOMAIN headers |->
                        r[col] \o Spaces(width(col, Len(rows)) - Len(r[col]))]
        head == Join(cells(headers), "  ")
        body == Join([r \in DOMAIN rows |-> Join(cells(rows[r]), "  ")], "\n")
    IN head \o "\n" \o Dashes(Len(head)) \o (IF body # "" THEN "\n" \o body ELSE "")

h_display_batch_status(args) ==
    IF ~isdir(dirs, BATCH_ROOT)
    THEN _err("display_batch_status: [Errno 2] No such file or directory: '" \o BATCH_ROOT \o "'")
    ELSE The({ IF rows = <<>> THEN Keep("(no batch requests)")
               ELSE Keep(table(<<"Queue", "Process", "QueuePri", "ProcPri", "Status">>, rows))
               : rows \in {BatchRows(files, dirs, args)} })

\* a faulty variant: the listing clears the queues it has shown
h_list_batch_requests_Purges(args) ==
    [Keep("(no batch requests)") EXCEPT !.files = [p \in {q \in DOMAIN files : files[q].kind # "job"} |-> files[p]]]

h_list_batch_requests(args) ==
    IF ~isdir(dirs, BATCH_ROOT)
    THEN _err("list_batch_requests: [Errno 2] No such file or directory: '" \o BATCH_ROOT \o "'")
    ELSE The({ IF rows = <<>> THEN Keep("(no batch requests)")
               ELSE Keep(table(<<"Queue", "Process", "QueuePri">>,
                               [i \in DOMAIN rows |-> SubSeq(rows[i], 1, 3)]))
               : rows \in {BatchRows(files, dirs, args)} })

h_display_line(args) ==
    IF args = <<>> THEN _err("usage: display_line <text>")
    ELSE Keep(Join(args, " "))

(***************************************************************************)
(* Dispatch: the handler registered under a name, applied to arguments.    *)
(***************************************************************************)
\* fault: whether the host query of a handler of HOST_QUERIES fails
Handle(h, args, fault) ==
    CASE h = "h_create_dir" -> h_create_dir(args)
      [] h = "h_change_current_dir" -> h_change_current_dir(args)
      [] h = "h_display_current_dir" -> h_display_current_dir(args)
      [] h = "h_display_error" -> h_display_error(args)
      [] h = "h_show_commands_status" -> h_show_commands_status(args)
      [] h = "h_batch" -> h_batch(args)
      [] h = "h_display_batch_status" -> h_display_batch_status(args)
      [] h = "h_list_batch_requests" -> h_list_batch_requests(args)
      [] h = "h_cancel_batch_requests" -> h_cancel_batch_requests(args)
      [] h = "h_update_batch_requests" -> h_update_batch_requests(args)
      [] OTHER -> NoArgs(h, fault)

(***************************************************************************)
(* The shell: its construction and the lines it resolves.                  *)
(***************************************************************************)
\* names vos_commands.txt may list (any sub-list of them, in this order,
\* under a comment line)
TxtUniverse == << "show system", "show status", "List", "ll files", "Quit" >>

TxtHeader == << "# OpenVOS commands", "" >>

\* entries commands.yaml may hold
PackUniverse == << [name |-> "list", val |-> Text("(listing)")] >>

SubSeqs(sq) == {SelectSeq([i \in DOMAIN sq |-> <<i, sq[i]>>], LAMBDA p : p[1] \in I) : I \in SUBSET DOMAIN sq}

Choices(sq) == {[i \in DOMAIN s |-> s[i][2]] : s \in SubSeqs(sq)}

\* the file system with vos_commands.txt holding the given lines
WithTxt(lines) == [p \in {join(CWD, TXT_PATH)} |-> TextFile(lines)]

NoFiles == [p \in {} |-> TextFile(<<>>)]

NoCall == [op |-> "", args |-> <<>>, ret |-> Returned(""), cd |-> ""]

\* the processes that may be inside h_batch at the same time
NumSubmitters == 2

Submitters == 1..NumSubmitters

\* a process outside h_batch
Idle == [at |-> "idle", job |-> <<>>, path |-> "", after |-> {}]

NoSubmitters == [p \in Submitters |-> Idle]

\* VOShell(): the registry and its tables built from the two files; the
\* module's globals as the import leaves them
InitShell(fs, pack) ==
    /\ yaml_pack = pack
    /\ files = fs
    /\ dirs = StartDirs
    /\ commands = ShellCommands(TxtLines(fs, StartDirs), pack)
    /\ commands_ci = CommandsCi(commands)
    /\ aliases = ShellAliases
    /\ index = ShellIndex(commands)
    /\ CURRENT_DIR = ""
    /\ LAST_ERROR = <<>>
    /\ now = 0
    /\ pc = "prompt"
    /\ line = ""
    /\ result = NoResult
    /\ last = NoCall
    /\ submitters = NoSubmitters

\* the case variants of a name: every way to flip the case of its first
\* VariantDepth letters, and the name all in upper case
VariantDepth == 2

FlipChar(c) == IF LowerChar(c) = c THEN UpperChar(c) ELSE LowerChar(c)

FlipAt(s, I) == LET RECURSIVE go(_)
                    go(i) == IF i > Len(s) THEN ""
                             ELSE (IF i \in I THEN FlipChar(Char(s, i)) ELSE Char(s, i)) \o go(i + 1)
                IN go(1)

Variants(n) == {FlipAt(n, I) : I \in SUBSET (1..Min(Len(n), VariantDepth))} \cup {Upper(n)}

\* lines typed at the prompt besides the names and alias patterns themselves
OtherLines ==
    { "", "   ", "show s", "show sy*", "SHOW SY*", "show st*", "show*", "c", "*", "d*", "li",
      "list", "list reports", "  List_Users  ", "ls", "LS -all", "lsx", "q", "quit now",
      "show commands report", "Show Commands Report now", "show commands status extra",
      "show commands", "dump*", "dump_fil? x y", "renam", "creat_file a", "batc", "zz",
      "lisst", "show systems", "shw status" }

Lines == OtherLines
           \cup UNION {Variants(n) : n \in Keys(commands)}
           \cup UNION {Variants(aliases[i].pattern) : i \in DOMAIN aliases}

emuVars == <<dirs, files, CURRENT_DIR, LAST_ERROR, now, last>>

InitResolve ==
    \E names \in Choices(TxtUniverse), pack \in Choices(PackUniverse) :
        InitShell(WithTxt(TxtHeader \o names), pack)

\* one call of VOShell._resolve, as default, do_help and completedefault make
\* a faulty variant: a resolution that ends in a message records it as the
\* last error
ResolveLine_RecordsError ==
    /\ pc = "prompt"
    /\ \E l \in Lines :
          /\ line' = l
          /\ result' = _resolve(commands, commands_ci, aliases, index, l)
    /\ pc' = "resolved"
    /\ LAST_ERROR' = IF result'.key = <<>> /\ result'.val.t = "str"
                     THEN <<result'.val.v>> ELSE LAST_ERROR
    /\ UNCHANGED <<shellVars, dirs, files, CURRENT_DIR, now, last, submitters>>

ResolveLine ==
    /\ pc = "prompt"
    /\ \E l \in Lines :
          /\ line' = l
          /\ result' = _resolve(commands, commands_ci, aliases, index, l)
    /\ pc' = "resolved"
    /\ UNCHANGED <<shellVars, emuVars, submitters>>

\* the caller has reported the result or the outcome; back to the prompt
Prompt ==
    /\ pc \in {"resolved", "called"}
    /\ pc' = "prompt"
    /\ line' = ""
    /\ result' = NoResult
    /\ last' = NoCall
    /\ UNCHANGED <<shellVars, dirs, files, CURRENT_DIR, LAST_ERROR, now, submitters>>

NextResolve == ResolveLine \/ Prompt

SpecResolve == InitResolve /\ [][NextResolve]_vars

(***************************************************************************)
(* Handler calls.  Call is one invocation of a handler from the prompt:    *)
(* the globals and the file system become what the handler left, and last  *)
(* records the call, its outcome and the working directory it started      *)
(* from, until the shell is back at the prompt.                            *)
(***************************************************************************)
Do(h, args, out) ==
       /\ pc = "prompt"
       /\ pc' = "called"
       /\ CURRENT_DIR' = out.CURRENT_DIR
       /\ LAST_ERROR' = out.LAST_ERROR
       /\ dirs' = out.dirs
       /\ files' = out.files
       /\ last' = [op |-> h, args |-> args, ret |-> out.ret, cd |-> CURRENT_DIR]
       /\ UNCHANGED <<shellVars, line, result, now, submitters>>

\* the handlers the registry holds as functions
ImplementedIn(cmds) == {cmds[i].val.v : i \in {j \in DOMAIN cmds : cmds[j].val.t = "fn"}}

(***************************************************************************)
(* The working directory: change_current_dir and create_dir on a choice of *)
(* targets, and every implemented handler called without arguments.        *)
(***************************************************************************)
DirTargets ==
    { "a", ">a", "..", ">", ">..", ">..>filesystem2", "/w/vos_state/filesystem2", "/w",
      ">..>..>vos_commands.txt", "/w/vos_state/filesystem/a>b" }

DirArgs == {<<>>, <<"a", "b">>} \cup {<<t>> : t \in DirTargets}

\* at most this many directories are created
MaxNewDirs == 2

InitDir == \E fs \in {NoFiles, WithTxt(TxtHeader \o <<"show system", "list">>)} : InitShell(fs, <<>>)

ChangeCurrentDir ==
    \E args \in DirArgs : Do("h_change_current_dir", args, h_change_current_dir(args))

CreateDir ==
    \E args \in DirArgs :
        \E out \in {h_create_dir(args)} :
            /\ Cardinality(out.dirs) <= Cardinality(StartDirs) + MaxNewDirs
            /\ Do("h_create_dir", args, out)

NextDir == ChangeCurrentDir \/ CreateDir \/ Prompt

SpecDir == InitDir /\ [][NextDir]_vars

\* every implemented handler called without arguments, in the file systems
\* create_dir can leave
CallNoArgs ==
    \E h \in ImplementedIn(commands), fault \in BOOLEAN : Do(h, <<>>, Handle(h, <<>>, fault))

\* texts display_line is given: a plain one and one that reads like an error
LineArgs == { <<"hello">>, <<"[ERR]", "boo">> }

DisplayLine ==
    \E args \in LineArgs : Do("h_display_line", args, h_display_line(args))

NextNoArgs == CallNoArgs \/ CreateDir \/ DisplayLine \/ Prompt

SpecNoArgs == InitDir /\ [][NextNoArgs]_vars

(***************************************************************************)
(* The batch store: submit, cancel, update and the two listings on a       *)
(* choice of argument lists.  The runs take less than a second of the      *)
(* clock.                                                                  *)
(***************************************************************************)
BatchArgs ==
    { <<"x">>, <<"x_1">>, <<"run>y.cmd", "now", "-queue_priority", "7">>,
      <<"x", "-queue", "a/b">>, <<>>, <<"x", "-process_priority", "hi">> }

CancelArgs == { <<>>, <<"x">>, <<"X*", "x">>, <<"y">>, <<"x_?">>, <<"*">> }

UpdateArgList ==
    { <<>>, <<"x">>, <<"x", "-queue_priority", "n">>,
      <<"X", "-queue_priority", "7", "-process_priority", "2">>,
      <<"x*", "y", "-queue_priority", "4">> }

ListArgs == { <<>>, <<"normal">> }

\* at most this many jobs are stored
MaxJobs == 3

Jobs(fs) == {p \in DOMAIN fs : fs[p].kind = "job"}

InitBatch == InitShell(NoFiles, <<>>)

Submit ==
    \E args \in BatchArgs :
        \E out \in {h_batch(args)} :
            /\ Cardinality(Jobs(out.files)) <= MaxJobs
            /\ Do("h_batch", args, out)

Cancel ==
    \E args \in CancelArgs : Do("h_cancel_batch_requests", args, h_cancel_batch_requests(args))

Update ==
    \E args \in UpdateArgList : Do("h_update_batch_requests", args, h_update_batch_requests(args))

ListJobs ==
    \E args \in ListArgs :
        \/ Do("h_display_batch_status", args, h_display_batch_status(args))
        \/ Do("h_list_batch_requests", args, h_list_batch_requests(args))

NextBatch == Submit \/ Cancel \/ Update \/ ListJobs \/ Prompt

SpecBatch == InitBatch /\ [][NextBatch]_vars

(***************************************************************************)
(* The batch store under arbitrary queue and process names, next to a job  *)
(* file of an earlier run that is not JSON.                                *)
(***************************************************************************)
StoreArgs ==
    { <<"x">>, <<>>,
      <<"run.me", "-queue", "nightly", "-process_priority", "2">>,
      <<"x", "-process_name", "../z">>,
      <<"x", "-queue", "../../filesystem">>,
      <<"x", "-queue", "normal/z.job">>,
      <<"x", "-bogus">>, <<"x", "-queue">>, <<"-notify">>,
      <<"x", "-queue_priority", "hi">> }

\* at most this many jobs are added to the store
MaxStored == 2

\* what an earlier run left: the queue 'normal' holding bad.job, cut short
LeftBehind ==
    [p \in {join(join(BATCH_ROOT, "normal"), "bad.job")} |-> TextFile(<<"{", "  \"command_line\": ">>)]

InitStore ==
    /\ \E fs \in {NoFiles, LeftBehind} :
          /\ files = fs
          /\ dirs = StartDirs \cup {dirname(p) : p \in DOMAIN fs}
    /\ yaml_pack = <<>>
    /\ commands = ShellCommands(<<>>, <<>>)
    /\ commands_ci = CommandsCi(commands)
    /\ aliases = ShellAliases
    /\ index = ShellIndex(commands)
    /\ CURRENT_DIR = ""
    /\ LAST_ERROR = <<>>
    /\ now = 0
    /\ pc = "prompt"
    /\ line = ""
    /\ result = NoResult
    /\ last = NoCall
    /\ submitters = NoSubmitters

SubmitAny ==
    \E args \in StoreArgs :
        \E out \in {h_batch(args)} :
            /\ Cardinality(Jobs(out.files)) <= MaxStored
            /\ Do("h_batch", args, out)

NextStore == SubmitAny \/ Cancel \/ Update \/ ListJobs \/ Prompt

SpecStore == InitStore /\ [][NextStore]_vars

(***************************************************************************)
(* The default process name of a command line.                             *)
(***************************************************************************)
Quotes == { "", "'", "\"" }

PathPrefixes == { "", "Sales>", "jobs/", "a>b/", "a/b>" }

BaseNames == { "Report", "x_y-1", "a.b", "", "it's", ".profile",
               "a_long_program_name_33_characters" }

Suffixes == { "", ".txt", ".tar.gz" }

Rests == { "", " -q n", "   now" }

\* the command lines a name is derived from
CommandLines ==
    { q \o pre \o base \o suf \o q \o rest :
        q \in Quotes, pre \in PathPrefixes, base \in BaseNames,
        suf \in Suffixes, rest \in Rests }
    \cup { "", "   ", "  'Sales>Report.txt' -queue nightly" }

InitDerive == InitShell(NoFiles, <<>>)

Derive ==
    /\ pc = "prompt"
    /\ \E c \in CommandLines :
          \E name \in {_derive_process_name(c)} :
              last' = [op |-> "_derive_process_name", args |-> <<c>>,
                       ret |-> IF name = <<>> THEN Raised("IndexError: list index out of range")
                               ELSE Returned(name[1]),
                       cd |-> CURRENT_DIR]
    /\ pc' = "called"
    /\ UNCHANGED <<shellVars, dirs, files, CURRENT_DIR, LAST_ERROR, now, line, result, submitters>>

NextDerive == Derive \/ Prompt

SpecDerive == InitDerive /\ [][NextDerive]_vars

(***************************************************************************)
(* Alias expansion, for the table of the module and for tables whose       *)
(* patterns overlap or whose targets start with a pattern again.           *)
(***************************************************************************)
ChainedAliases ==
    << [pattern |-> "ls", target |-> "ll"],
       [pattern |-> "ll", target |-> "list"],
       [pattern |-> "list", target |-> "list -all"] >>

NestedAliases ==
    << [pattern |-> "show", target |-> "display"],
       [pattern |-> "show commands", target |-> "list"],
       [pattern |-> "Show Commands Report", target |-> "show commands status"] >>

\* {k.lower(): v for k, v in ALIASES.items()}
AliasTable(al) ==
    [i \in DOMAIN al |-> [pattern |-> Lower(al[i].pattern), target |-> al[i].target]]

AliasTables == { ShellAliases, AliasTable(ChainedAliases), AliasTable(NestedAliases) }

AliasLines ==
    Lines \cup { "ls x", "LS  -all ", "ll", "llx", "list", "list x", "show x", "showx",
                 "show  commands", "show commands x", "Show Commands Report now",
                 "show commands reports" }

InitAlias ==
    /\ aliases \in AliasTables
    /\ yaml_pack = <<>>
    /\ files = NoFiles
    /\ dirs = StartDirs
    /\ commands = ShellCommands(<<>>, <<>>)
    /\ commands_ci = CommandsCi(commands)
    /\ index = ShellIndex(commands)
    /\ CURRENT_DIR = ""
    /\ LAST_ERROR = <<>>
    /\ now = 0
    /\ pc = "prompt"
    /\ line = ""
    /\ result = NoResult
    /\ last = NoCall
    /\ submitters = NoSubmitters

\* the first steps of _resolve: the line stripped, then expanded
ExpandLine ==
    /\ pc = "prompt"
    /\ \E l \in AliasLines :
          /\ line' = l
          /\ last' = [op |-> "ExpandAlias", args |-> <<l>>,
                      ret |-> Returned(ExpandAlias(Strip(l), aliases)), cd |-> CURRENT_DIR]
    /\ pc' = "called"
    /\ UNCHANGED <<shellVars, dirs, files, CURRENT_DIR, LAST_ERROR, now, result, submitters>>

NextAlias == ExpandLine \/ Prompt

SpecAlias == InitAlias /\ [][NextAlias]_vars

(***************************************************************************)
(* Processes that share the batch store: each runs h_batch once, and the   *)
(* choice of the file name and the writing of the file are two steps.      *)
(***************************************************************************)
RaceArgs ==
    { <<"x", "one">>, <<"x", "two">>, <<"y">>, <<"x", "-queue", "nightly">>,
      <<"x_1", "-queue_priority", "7">> }

\* the record h_batch builds from arguments it accepts
JobOf(args) ==
    The({ job_info(parsed.cmd[1], parsed.opts, _derive_process_name(parsed.cmd[1])[1])
          : parsed \in {_parse_batch_arguments(args)} })

InitRace == InitShell(NoFiles, <<>>)

\* h_batch up to the return of _generate_unique_job_path: the queue
\* directory is made and the first free file name is chosen
ChooseName(p) ==
    /\ submitters[p].at = "idle"
    /\ \E args \in RaceArgs :
          \E job \in {JobOf(args)} :
              \E gen \in {_generate_unique_job_path(files, dirs, job.queue_name, job.process_name)} :
                  /\ gen.err = ""
                  /\ dirs' = gen.dirs
                  /\ submitters' = [submitters EXCEPT ![p] =
                         [at |-> "chosen", job |-> <<job>>, path |-> gen.path,
                          after |-> {q \in Submitters : submitters[q].at = "done"}]]
    /\ UNCHANGED <<shellVars, files, CURRENT_DIR, LAST_ERROR, now, pc, line, result, last>>

\* open(job_path, 'w') and json.dump: the file is written, over whatever
\* holds the name by now
WriteJob(p) ==
    /\ submitters[p].at = "chosen"
    /\ CanWrite(dirs, submitters[p].path)
    /\ \E job_path \in {Lookup(dirs, submitters[p].path)[1]} :
          files' = [f \in DOMAIN files \cup {job_path} |->
                       IF f = job_path THEN submitters[p].job[1] ELSE files[f]]
    /\ submitters' = [submitters EXCEPT ![p].at = "done"]
    /\ UNCHANGED <<shellVars, dirs, CURRENT_DIR, LAST_ERROR, now, pc, line, result, last>>

NextRace == \E p \in Submitters : ChooseName(p) \/ WriteJob(p)

SpecRace == InitRace /\ [][NextRace]_vars

(***************************************************************************)
(* The life of a job record: the batch commands next to handlers that are  *)
(* not batch commands.                                                     *)
(***************************************************************************)
LifeArgs == { <<"x">>, <<"run.me", "now", "-queue", "nightly">> }

\* delete_file: inside the sandbox, and by a host path and a legacy path
\* that lead to a job file
DeleteArgs ==
    { <<>>, <<"x.job">>, <<join(join(BATCH_ROOT, "normal"), "x.job")>>,
      <<">..>vos_internals>batches>nightly>run.job">> }

SubmitJob ==
    \E args \in LifeArgs :
        \E out \in {h_batch(args)} :
            /\ Cardinality(Jobs(out.files)) <= MaxStored
            /\ Do("h_batch", args, out)

DeleteFile ==
    \E args \in DeleteArgs : Do("h_delete_file", args, h_delete_file(args))

NextLife == SubmitJob \/ Cancel \/ Update \/ ListJobs \/ DeleteFile \/ DisplayLine \/ Prompt

SpecLife == InitBatch /\ [][NextLife]_vars

(***************************************************************************)
(* Cancel and update over queues that hold a file that does not parse.     *)
(***************************************************************************)
QueuedArgs == { <<"x">>, <<"bad">>, <<"x", "-queue", "normal/z.job">> }

CancelUnreadableArgs == { <<"B*">>, <<"x">>, <<"z", "nothing">>, <<"*">> }

UpdateUnreadableArgs ==
    { <<"bad", "-queue_priority", "9">>, <<"*", "-process_priority", "2">>,
      <<"z", "x", "-queue_priority", "4">> }

SubmitQueued ==
    \E args \in QueuedArgs :
        \E out \in {h_batch(args)} :
            /\ Cardinality(Jobs(out.files)) <= MaxStored
            /\ Do("h_batch", args, out)

CancelUnreadable ==
    \E args \in CancelUnreadableArgs :
        Do("h_cancel_batch_requests", args, h_cancel_batch_requests(args))

UpdateUnreadable ==
    \E args \in UpdateUnreadableArgs :
        Do("h_update_batch_requests", args, h_update_batch_requests(args))

NextUnreadable == SubmitQueued \/ CancelUnreadable \/ UpdateUnreadable \/ Prompt

SpecUnreadable == InitStore /\ [][NextUnreadable]_vars

(***************************************************************************)
(* Properties of the resolver                                              *)
(***************************************************************************)
\* what _resolve returns when it resolves to the registered name n
ResolvedTo(n, args) == [key |-> <<n>>, val |-> DictGet(commands, n), args |-> args]

\* no other registered name has the same lower-cased form
CaseUnique(n) ==
    \A m \in Keys(commands) : (Len(m) = Len(n) /\ Lower(m) = Lower(n)) => m = n

\* no alias pattern equals the lower-cased text or is its first word(s)
AliasFree(s) == \A i \in DOMAIN aliases : ~AliasApplies(aliases[i], Lower(s))

\* C1 as stated: for every canonical name n of the registry and every
\* upper/lower-case variant of n, _resolve(variant) returns n, the handler
\* registered for n and an empty argument list.
C1_AnyCaseResolvesToName ==
    pc = "resolved" =>
        LET line_lc == Lower(line)
        IN \A n \in Keys(commands) :
               (Len(n) = Len(line) /\ line_lc = Lower(n)) => result = ResolvedTo(n, <<>>)

\* C1 amended: the same, for every canonical name n that shares its
\* lower-cased form with no other registered name and to which no alias
\* applies (no alias pattern equals lower(n) or is a prefix of it followed
\* by a space).
C1_UniqueNameResolvesToItself ==
    pc = "resolved" =>
        LET line_lc == Lower(line)
        IN \A n \in Keys(commands) :
               (Len(n) = Len(line) /\ line_lc = Lower(n) /\ CaseUnique(n) /\ AliasFree(n))
                   => result = ResolvedTo(n, <<>>)

\* a case variant (not the name itself) of a three-word name has been resolved
C1_Witness ==
    /\ pc = "resolved"
    /\ line = "SHOW COMMANDS STATUS"
    /\ "show commands status" \in Keys(commands)
    /\ CaseUnique("show commands status")
    /\ result = ResolvedTo("show commands status", <<>>)

\* C8 as stated: for every alias whose target is a registered name,
\* resolving the alias pattern in any letter case returns the target's
\* canonical name and a callable handler.
C8_AliasResolvesToCallableTarget ==
    pc = "resolved" =>
        \A i \in DOMAIN aliases :
            (Len(line) = Len(aliases[i].pattern) /\ Lower(line) = aliases[i].pattern
                /\ aliases[i].target \in Keys(commands))
                => /\ result.key = <<aliases[i].target>>
                   /\ Callable(result.val)
                   /\ result.args = <<>>

PackKeys == {yaml_pack[i].name : i \in DOMAIN yaml_pack}

\* C8 amended: for every alias whose target is a registered name that no
\* other registered name equals case-insensitively, resolving the alias
\* pattern in any letter case returns the target's canonical name, the
\* value registered for it and no arguments; that value is callable unless
\* a command pack entry replaced it by static text.
C8_AliasResolvesToTarget ==
    pc = "resolved" =>
        \A i \in DOMAIN aliases :
            (/\ Len(line) = Len(aliases[i].pattern)
             /\ Lower(line) = aliases[i].pattern
             /\ aliases[i].target \in Keys(commands)
             /\ CaseUnique(aliases[i].target))
                => /\ result = ResolvedTo(aliases[i].target, <<>>)
                   /\ (aliases[i].target \notin PackKeys => Callable(result.val))
                   /\ (aliases[i].target \in PackKeys => result.val.t = "str")

\* 'Show Commands Report' has been resolved to 'show commands status'
C8_Witness ==
    /\ pc = "resolved"
    /\ line = "SHow commands report"
    /\ result = [key |-> <<"show commands status">>, val |-> Fn("h_show_commands_status"),
                 args |-> <<>>]

\* the line reaches the prefix/glob search and its head has several candidates
HeadOf(l) == _split_cmd_args(ExpandAlias(Strip(l), aliases), commands_ci).head

ReachesCandidates(l) ==
    /\ Strip(l) # ""
    /\ Lower(ExpandAlias(Strip(l), aliases)) \notin DOMAIN commands_ci
    /\ HeadOf(l) # ""
    /\ Lower(HeadOf(l)) \notin DOMAIN commands_ci

CandidateSet(l) ==
    {n \in Keys(commands) : \/ StartsWith(Lower(n), Lower(HeadOf(l)))
                            \/ FnMatch(Lower(n), Lower(HeadOf(l)))}

\* C9: when the head of a line has more than one prefix/glob candidate,
\* _resolve returns no key, no arguments and the Ambiguous diagnostic that
\* lists the candidates in sorted order, the first 20 at most, with the
\* '... (more)' marker exactly when there are more than 20.
C9_AmbiguousListsSorted ==
    (pc = "resolved" /\ ReachesCandidates(line) /\ Cardinality(CandidateSet(line)) > 1)
        => result = [key |-> <<>>,
                     val |-> Text(AmbiguousMsg(SortedSeq(CandidateSet(line)))),
                     args |-> <<>>]

HasGlob(s) == \E i \in 1..Len(s) : Char(s, i) \in {"*", "?"}

\* C10: a line with a glob that, read over the whole line, matches exactly
\* one registered name (as 'show sy*' matches 'show system') resolves to
\* that command.
C10_WholeLineGlobResolves ==
    pc = "resolved" =>
        \A n \in Keys(commands) :
            (/\ HasGlob(line)
             /\ {m \in Keys(commands) : FnMatch(Lower(m), Lower(Strip(line)))} = {n})
                => result.key = <<n>>

(***************************************************************************)
(* Properties of the working directory                                     *)
(***************************************************************************)
\* p is STATE_DIR or lies below it
Inside(p) == LET n == normpath(p) IN n = STATE_DIR \/ StartsWith(n, STATE_DIR \o "/")

\* C2: in every state reachable by change_current_dir calls, STATE_DIR
\* joined with CURRENT_DIR denotes a location inside STATE_DIR, never a
\* sibling or an ancestor of it.
C2_WorkingDirInsideStateDir == Inside(join(STATE_DIR, CURRENT_DIR))

\* C3 (for targets that exist): change_current_dir with a legacy-absolute
\* target (leading '>') that resolves to a directory outside STATE_DIR
\* returns the '... is outside STATE_DIR' error and leaves CURRENT_DIR as
\* it was before the call.
C3_OutsideLegacyTargetRejected ==
    (/\ pc = "called"
     /\ last.op = "h_change_current_dir"
     /\ Len(last.args) = 1
     /\ StartsWith(Strip(last.args[1]), ">")
     /\ isdir(dirs, resolve_state_path(last.cd, last.args[1]))
     /\ ~Inside(resolve_state_path(last.cd, last.args[1])))
        => /\ last.ret = Returned("[ERR] change_current_dir: target "
                                    \o resolve_state_path(last.cd, last.args[1])
                                    \o " is outside STATE_DIR")
           /\ CURRENT_DIR = last.cd

\* C7: every implemented handler of the registry, called with an empty
\* argument list in any reachable state, returns a string and raises no
\* exception.
C7_NoArgsNeverRaises ==
    (pc = "called" /\ last.args = <<>> /\ last.op \in ImplementedIn(commands))
        => last.ret.t = "str"

(***************************************************************************)
(* Properties of the batch store                                           *)
(***************************************************************************)
\* the k-th file name tried for a process name
JobName(base, k) == IF k = 0 THEN base \o ".job" ELSE base \o "_" \o ToStr(k) \o ".job"

\* the step is a call of handler h from the prompt
CallOf(h) == pc = "prompt" /\ pc' = "called" /\ last'.op = h

Succeeded(ret) == ret.t = "str" /\ StartsWith(ret.v, "[OK] ")

Added == DOMAIN files' \ DOMAIN files

\* the step adds one file and leaves every file there was as it was
AddsOneFile == /\ Cardinality(Added) = 1
               /\ \A p \in DOMAIN files : p \in DOMAIN files' /\ files'[p] = files[p]

\* C4 as stated: a successful submit adds one new file and overwrites none,
\* and the k-th submit (k = 0, 1, 2, ...) of a process name to a queue is
\* stored as name.job for k = 0 and as name_k.job after that.
C4_DuplicatesNumberedInOrder ==
    [][(CallOf("h_batch") /\ Succeeded(last'.ret)) =>
          /\ AddsOneFile
          /\ \A p \in Added :
                LET job == files'[p]
                    k == Cardinality({q \in Jobs(files) :
                                        /\ files[q].process_name = job.process_name
                                        /\ files[q].queue_name = job.queue_name})
                IN p = join(join(BATCH_ROOT, job.queue_name), JobName(job.process_name, k))]_vars

\* C4 amended: a successful submit adds one new file and overwrites none,
\* and the file is the first free name of name.job, name_1.job,
\* name_2.job, ... in the queue directory, which is name_k.job for the
\* k-th duplicate only while no other entry of the directory has taken one
\* of these names.
C4_SubmitTakesFirstFreeName ==
    [][(CallOf("h_batch") /\ Succeeded(last'.ret)) =>
          /\ AddsOneFile
          /\ \A p \in Added :
                LET job == files'[p]
                    dir == join(BATCH_ROOT, job.queue_name)
                    taken(k) == join(dir, JobName(job.process_name, k)) \in DOMAIN files \cup dirs
                IN \E k \in 0..Cardinality(DOMAIN files) :
                      /\ p = join(dir, JobName(job.process_name, k))
                      /\ ~taken(k)
                      /\ \A j \in 0..(k - 1) : taken(j)]_vars

\* three submits of the process name x to the queue normal have been stored
C4_Witness ==
    LET dir == join(BATCH_ROOT, "normal")
    IN /\ pc = "called"
       /\ last.op = "h_batch"
       /\ Succeeded(last.ret)
       /\ Jobs(files) = {join(dir, "x.job"), join(dir, "x_1.job"), join(dir, "x_2.job")}
       /\ \A p \in Jobs(files) : files[p].process_name = "x"

\* C5: a cancel deletes exactly the stored jobs, in any queue, whose process
\* name matches one of the patterns case-insensitively; every other job
\* file is unchanged and still listed; the count returned is the number of
\* files deleted.
C5_CancelRemovesExactlyMatching ==
    [][(CallOf("h_cancel_batch_requests") /\ ~IsErr(last'.ret)) =>
          LET hit == {p \in Jobs(files) : MatchesAny(files[p].process_name, last'.args)}
          IN /\ DOMAIN files' = DOMAIN files \ hit
             /\ \A p \in DOMAIN files' : files'[p] = files[p]
             /\ \A p \in Jobs(files') :
                   \E i \in DOMAIN BatchRows(files', dirs', <<>>) :
                      /\ BatchRows(files', dirs', <<>>)[i][1] = files'[p].queue_name
                      /\ BatchRows(files', dirs', <<>>)[i][2] = files'[p].process_name
             /\ last'.ret = Returned(_ok("cancelled " \o ToStr(Cardinality(hit))
                                            \o " batch request(s)"))]_vars

\* the two records differ in their priorities at most
SameButPriorities(a, b) ==
    [a EXCEPT !.queue_priority = b.queue_priority, !.process_priority = b.process_priority] = b

\* an update step adds and removes nothing, changes only priorities of
\* jobs whose process name matches a pattern, and returns the number of
\* jobs it changed
UpdateStepFrame ==
    CallOf("h_update_batch_requests") =>
        LET patterns == UpdateArgs(last'.args, 1, <<>>, <<>>, <<>>).patterns
            touched == {p \in DOMAIN files : files'[p] # files[p]}
        IN /\ DOMAIN files' = DOMAIN files
           /\ dirs' = dirs
           /\ \A p \in touched : /\ files[p].kind = "job"
                                 /\ MatchesAny(files[p].process_name, patterns)
                                 /\ SameButPriorities(files'[p], files[p])
           /\ IsErr(last'.ret) => touched = {}
           /\ ~IsErr(last'.ret) =>
                 last'.ret = Returned(_ok("updated " \o ToStr(Cardinality(touched))
                                             \o " batch request(s)"))

\* the update just made, made again, changes nothing and returns 0
UpdateRepeats ==
    (pc = "called" /\ last.op = "h_update_batch_requests" /\ ~IsErr(last.ret))
        => /\ h_update_batch_requests(last.args).files = files
           /\ h_update_batch_requests(last.args).ret
                 = Returned(_ok("updated 0 batch request(s)"))

\* C6: update_batch_requests never adds or removes a job and changes
\* nothing but the queue_priority / process_priority of jobs whose process
\* name matches a pattern; the count it returns is the number of jobs it
\* modified, and repeating the same update returns 0 and changes nothing.
C6_UpdateChangesOnlyPriorities == [][UpdateStepFrame]_vars /\ []UpdateRepeats

\* an update has changed the one job named x and left the job named y alone
C6_Witness ==
    /\ pc = "called"
    /\ last.op = "h_update_batch_requests"
    /\ last.args = <<"X", "-queue_priority", "7", "-process_priority", "2">>
    /\ last.ret = Returned(_ok("updated 1 batch request(s)"))
    /\ \E p \in Jobs(files) : /\ files[p].process_name = "x"
                              /\ files[p].queue_priority = <<7>>
                              /\ files[p].process_priority = <<2>>
    /\ \E p \in Jobs(files) : files[p].process_name = "y" /\ files[p].process_priority = <<>>

(***************************************************************************)
(* Two-token names                                                         *)
(***************************************************************************)
TwoTokens(n) == Len(Split(n)) = 2

\* C11 as stated: for every two-token registered name, a line equal to the
\* name in any letter case resolves to that command with no arguments; it is
\* never split into head and argument and never reported ambiguous.
C11_TwoTokenNameResolvesWhole ==
    pc = "resolved" =>
        \A n \in Keys(commands) :
            (Len(n) = Len(line) /\ Lower(line) = Lower(n) /\ TwoTokens(n))
                => result = ResolvedTo(n, <<>>)

\* C11 amended: the same, for two-token names to which no alias applies and
\* that share their lower-cased form with no other registered name; it
\* holds also when the first token is a prefix of several registered names.
C11_TwoTokenNameWinsOverSplit ==
    pc = "resolved" =>
        \A n \in Keys(commands) :
            (/\ Len(n) = Len(line) /\ Lower(line) = Lower(n) /\ TwoTokens(n)
             /\ CaseUnique(n) /\ AliasFree(n))
                => /\ result = ResolvedTo(n, <<>>)
                   /\ result.args = <<>>

\* 'SHOW SYSTEM' has been resolved to 'show system' although 'show' alone is
\* a prefix of several registered names
C11_Witness ==
    /\ pc = "resolved"
    /\ line = "SHOW SYSTEM"
    /\ Len(Candidates(commands, "show")) > 1
    /\ result = ResolvedTo("show system", <<>>)

(***************************************************************************)
(* The legacy notation of the working directory                            *)
(***************************************************************************)
\* working directories a call may be made from
SomeDirs == {"", "a", "a/b", "../filesystem2"}

\* C12: for every value d that CURRENT_DIR takes, d written in legacy
\* notation as display_current_dir writes it and handed to
\* resolve_state_path names the location STATE_DIR joined with d, whatever
\* the working directory of the call is.
C12_LegacyNotationRoundTrip ==
    \A cd \in SomeDirs :
        normpath(resolve_state_path(cd, VosDir(CURRENT_DIR)))
            = normpath(join(STATE_DIR, CURRENT_DIR))

\* the path a call of change_current_dir or create_dir names
TargetOf(call) == resolve_state_path(call.cd, call.args[1])

\* C18: as the documentation of the command states, change_current_dir to a
\* target inside STATE_DIR that does not exist creates that directory and
\* makes it the current directory: the call succeeds, the target is a
\* directory afterwards and CURRENT_DIR names it.
C18_MissingTargetIsCreated ==
    [][(/\ pc' = "called"
        /\ last'.op = "h_change_current_dir"
        /\ Len(last'.args) = 1
        /\ Inside(TargetOf(last'))
        /\ ~exists(files, dirs, TargetOf(last')))
           => /\ Succeeded(last'.ret)
              /\ isdir(dirs', TargetOf(last'))
              /\ normpath(join(STATE_DIR, CURRENT_DIR')) = normpath(TargetOf(last'))]_vars

(***************************************************************************)
(* The error record                                                        *)
(***************************************************************************)
\* the message of an '[ERR] ...' value
ErrText(ret) == SubSeq(ret.v, Len("[ERR] ") + 1, Len(ret.v))

\* every step that ends a handler call with an '[ERR] ...' value records its
\* message; every other step leaves LAST_ERROR as it is
ErrorRecorded ==
    IF pc' = "called" /\ IsErr(last'.ret)
    THEN LAST_ERROR' = <<ErrText(last'.ret)>>
    ELSE LAST_ERROR' = LAST_ERROR

\* a call whose result is the text it was given
Echoes(call) == call.op = "h_display_line" /\ call.args # <<>>

\* as ErrorRecorded, for the values a handler makes itself
OwnErrorRecorded ==
    IF pc' = "called" /\ IsErr(last'.ret) /\ ~Echoes(last')
    THEN LAST_ERROR' = <<ErrText(last'.ret)>>
    ELSE LAST_ERROR' = LAST_ERROR

\* display_error without arguments reports the record, 'No errors.' while
\* there is none
ErrorReported ==
    (pc = "called" /\ last.op = "h_display_error" /\ last.args = <<>>)
        => last.ret = Returned(IF LAST_ERROR = <<>> THEN "No errors."
                               ELSE "Last error: " \o LAST_ERROR[1])

\* C19: LAST_ERROR is None until a handler returns an '[ERR] ...' value, then
\* it is the message of the most recent such value; a later successful call
\* and display_error itself leave it unchanged, and display_error reports
\* it, or 'No errors.' while it is None.
C19_LastErrorIsMostRecent ==
    /\ LAST_ERROR = <<>>
    /\ [][ErrorRecorded]_vars
    /\ []ErrorReported

\* C19 (amended): the same for the '[ERR] ...' values handlers make
\* themselves; a text display_line echoes is not recorded, whatever it reads.
C19_OwnErrorsAreRecorded ==
    /\ LAST_ERROR = <<>>
    /\ [][OwnErrorRecorded]_vars
    /\ []ErrorReported

\* display_error has reported the usage error of an earlier create_dir call
C19_Witness ==
    /\ pc = "called"
    /\ last.op = "h_display_error"
    /\ last.ret = Returned("Last error: usage: create_dir <path>")
    /\ LAST_ERROR = <<"usage: create_dir <path>">>

(***************************************************************************)
(* Resolution and the module's state                                       *)
(***************************************************************************)
\* C20: for every input line, _resolve (its ambiguous, unknown and empty
\* outcomes included) leaves LAST_ERROR, CURRENT_DIR, the command registry
\* and the alias table unchanged.
C20_ResolveLeavesStateAlone ==
    [][pc' = "resolved" => UNCHANGED <<LAST_ERROR, CURRENT_DIR, commands, commands_ci, aliases>>]_vars

\* a line has resolved to the ambiguity message and no error is on record
C20_Witness ==
    /\ pc = "resolved"
    /\ result.key = <<>>
    /\ result.val.t = "str"
    /\ StartsWith(result.val.v, "Ambiguous command.")
    /\ LAST_ERROR = <<>>
    /\ CURRENT_DIR = ""

(***************************************************************************)
(* Properties of the process name                                          *)
(***************************************************************************)
\* s without everything from its last '.' onward
BeforeLastDot(s) ==
    IF Contains(s, ".")
    THEN SubSeq(s, 1, (CHOOSE i \in 1..Len(s) :
                           /\ Char(s, i) = "."
                           /\ \A j \in (i + 1)..Len(s) : Char(s, j) # ".") - 1)
    ELSE s

\* the reference derivation: the first whitespace token without its
\* surrounding quotes, its final '>' segment, the basename of that, without
\* everything from the last '.' onward, its alphanumerics, '_' and '-',
\* 'batch' if that is empty, cut to 32 characters
ReferenceName(command_line) ==
    LET words == Split(command_line)
        token == IF words = <<>> THEN "" ELSE StripChars(words[1], "'\"")
        segment == LastOf(SplitOn(token, ">"))
        base == LastOf(SplitOn(segment, "/"))
        kept == KeepNameChars(BeforeLastDot(base))
        name == IF kept = "" THEN "batch" ELSE kept
    IN SubSeq(name, 1, Min(Len(name), MaxNameLen))

\* C13: for every command line the derived default process name equals the
\* reference: first whitespace token, surrounding quotes stripped, final '>'
\* segment, path basename, everything from the last '.' onward dropped, only
\* alphanumerics, '_' and '-' kept, 'batch' if empty, at most 32 characters.
C13_DerivationEqualsReference ==
    (pc = "called" /\ last.op = "_derive_process_name")
        => last.ret = Returned(ReferenceName(last.args[1]))

(***************************************************************************)
(* Properties of the batch store under arbitrary names                     *)
(***************************************************************************)
ValidProcessName(s) ==
    /\ s # ""
    /\ Len(s) <= MaxNameLen
    /\ \A i \in 1..Len(s) : IsAlnum(Char(s, i)) \/ Char(s, i) \in {"_", "-"}

\* C14: every job record submit has persisted, whether its process name was
\* derived or given with -process_name, has a processName that is non-empty,
\* at most 32 characters long and made of alphanumerics, '_' and '-' only.
C14_StoredProcessNamesAreValid ==
    \A p \in Jobs(files) : ValidProcessName(files[p].process_name)

\* the path lies below the directory d
Below(p, d) == Len(p) > Len(d) + 1 /\ StartsWith(p, d \o "/")

\* C15: after any sequence of submit, update and cancel with arbitrary queue
\* and process names, every job record lies in a queue directory under
\* BATCH_ROOT and none lies under the sandbox root STATE_DIR.
C15_JobsStayUnderBatchRoot ==
    \A p \in Jobs(files) :
        /\ Below(dirname(p), BATCH_ROOT)
        /\ ~Below(p, STATE_DIR)

\* the token at i is the value of the option before it (no value of
\* StoreArgs is itself the name of an option)
IsValueAt(args, i) == i > 1 /\ args[i - 1] \in VALUE_OPTIONS

UnrecognisedOption(args) ==
    \E i \in DOMAIN args :
        /\ StartsWith(args[i], "-") /\ ~IsValueAt(args, i)
        /\ args[i] \notin BOOL_FLAGS \cup VALUE_OPTIONS

MissingValue(args) ==
    args # <<>> /\ args[Len(args)] \in VALUE_OPTIONS /\ ~IsValueAt(args, Len(args))

NoCommandToken(args) ==
    \A i \in DOMAIN args : StartsWith(args[i], "-") \/ IsValueAt(args, i)

NonIntegerPriority(args) ==
    \E i \in 1..(Len(args) - 1) :
        /\ args[i] \in {"-process_priority", "-queue_priority"} /\ ~IsValueAt(args, i)
        /\ IntOf(args[i + 1]) = <<>>

BadSubmit(args) ==
    UnrecognisedOption(args) \/ MissingValue(args) \/ NoCommandToken(args) \/ NonIntegerPriority(args)

\* C16: submit rejects bad input without touching the store: when the
\* arguments hold an unrecognised '-' option, an option missing its value, no
\* command-line token or a non-integer priority, h_batch returns an
\* '[ERR] batch: ...' value and no job file or queue directory is created or
\* modified.
C16_BadSubmitLeavesStoreAlone ==
    [][(pc' = "called" /\ last'.op = "h_batch" /\ BadSubmit(last'.args))
          => /\ last'.ret.t = "str"
             /\ StartsWith(last'.ret.v, "[ERR] batch: ")
             /\ files' = files
             /\ dirs' = dirs]_vars

\* a submit with an unknown option has been rejected while the store held a
\* job and the file left behind
C16_Witness ==
    /\ pc = "called"
    /\ last.op = "h_batch"
    /\ last.args = <<"x", "-bogus">>
    /\ last.ret = Returned("[ERR] batch: unknown option -bogus")
    /\ Jobs(files) # {}
    /\ DOMAIN LeftBehind \subseteq DOMAIN files

\* the '.job' entries of the queues a listing with these arguments
\* enumerates, in the order of the listing
Enumerated(args) ==
    SortedEntries({e \in JobEntries(files, dirs) : args = <<>> \/ e[1] = args[1]})

\* the cells of the lines below the header and its rule
RowsOf(text) ==
    LET lines == SplitOn(text, "\n")
    IN [i \in 1..(Len(lines) - 2) |-> Split(lines[i + 2])]

RowShows(cells, e) ==
    IF Readable(files, e)
    THEN /\ Len(cells) = 5
         /\ cells[1] = e[1]
         /\ cells[2] = files[JobFile(e)].process_name
         /\ cells[5] = "pending"
    ELSE cells = <<e[1], BaseName(e[2]), "unreadable">>

\* C17: a job file that fails to parse never aborts a listing:
\* display_batch_status returns one row for every '.job' file of the
\* enumerated queues, a malformed one under its file base name with status
\* 'unreadable', a readable one under its process name with status 'pending'.
C17_UnreadableJobsAreListed ==
    (pc = "called" /\ last.op = "h_display_batch_status")
        => /\ last.ret.t = "str"
           /\ IF Enumerated(last.args) = <<>>
              THEN last.ret.v = "(no batch requests)"
              ELSE /\ Len(RowsOf(last.ret.v)) = Len(Enumerated(last.args))
                   /\ \A i \in DOMAIN Enumerated(last.args) :
                          RowShows(RowsOf(last.ret.v)[i], Enumerated(last.args)[i])

\* a listing of the queue 'normal' while it held the file left behind, a
\* directory named z.job and two readable jobs
C17_Witness ==
    /\ pc = "called"
    /\ last.op = "h_display_batch_status"
    /\ last.args = <<"normal">>
    /\ RowsOf(last.ret.v) = << <<"normal", "bad", "unreadable">>,
                               <<"normal", "x", "4", "None", "pending">>,
                               <<"normal", "z", "unreadable">> >>
    /\ isdir(dirs, join(join(BATCH_ROOT, "normal"), "z.job"))
    /\ Cardinality(Jobs(files)) = 2

(***************************************************************************)
(* Properties of the registry                                              *)
(***************************************************************************)
\* C21: registering a name that is already in the registry (compared
\* case-sensitively) fails and leaves the existing entry as it was: every
\* built-in name still registered has the handler, and so the implemented
\* status, the built-in table gave it, whatever commands.yaml and
\* vos_commands.txt name afterwards.
C21_ExistingEntryIsKept ==
    \A i \in DOMAIN BUILTINS :
        BUILTINS[i].name \in Keys(commands)
            => DictGet(commands, BUILTINS[i].name) = BUILTINS[i].val

(***************************************************************************)
(* Properties of the arguments, the aliases and the candidates             *)
(***************************************************************************)
\* the tokens of the line are those of the name n followed by at least one
\* more, and no longer registered name is made of the first tokens of the line
NameThenArgs(n) ==
    LET nt == Split(n)
        lt == Split(line)
    IN /\ Len(nt) \in 1..3
       /\ Len(lt) > Len(nt)
       /\ SubSeq(lt, 1, Len(nt)) = nt
       /\ \A m \in Keys(commands) \ {n} :
              ~(/\ Len(Split(m)) > Len(nt)
                /\ Len(Split(m)) <= Len(lt)
                /\ SubSeq(lt, 1, Len(Split(m))) = Split(m))

\* C22: for every registered name n of one, two or three tokens and every
\* non-empty list a of further tokens that does not extend n to another
\* registered name, the line 'n a1 ... ak' resolves to n, the handler of n
\* and the arguments a1 ... ak: no token of the name is passed as an argument.
C22_NameTokensAreNotArguments ==
    pc = "resolved" =>
        \A n \in Keys(commands) :
            NameThenArgs(n) =>
                result = ResolvedTo(n, SubSeq(Split(line), Len(Split(n)) + 1, Len(Split(line))))

\* the aliases whose pattern equals the lower-cased text or is a prefix of it
\* followed by a space
Matching(s) ==
    {i \in DOMAIN aliases :
        \/ Lower(s) = aliases[i].pattern
        \/ StartsWith(Lower(s), aliases[i].pattern \o " ")}

\* C23: alias expansion rewrites at most once and picks the longest match:
\* the longest pattern that equals the lower-cased line or is a prefix of it
\* followed by a space is replaced by its target and the rest of the line is
\* kept; the rewritten line is not expanded again, and a line no pattern
\* matches in this way (a pattern that is only the start of the first word)
\* is left as it is.
C23_LongestAliasOnce ==
    (pc = "called" /\ last.op = "ExpandAlias")
        => LET s == Strip(last.args[1])
           IN IF Matching(s) = {}
              THEN last.ret = Returned(s)
              ELSE \E i \in Matching(s) :
                      /\ \A j \in Matching(s) : Len(aliases[j].pattern) <= Len(aliases[i].pattern)
                      /\ last.ret = Returned(Strip(aliases[i].target
                                        \o SubSeq(s, Len(aliases[i].pattern) + 1, Len(s))))

\* three patterns match the line; the longest was replaced, and the result,
\* which starts with two of the patterns again, was left alone
C23_Witness ==
    /\ pc = "called"
    /\ last.op = "ExpandAlias"
    /\ last.args = <<"Show Commands Report now">>
    /\ Cardinality(Matching(last.args[1])) = 3
    /\ last.ret = Returned("show commands status now")
    /\ Matching(last.ret.v) # {}

ArgsOf(l) == _split_cmd_args(ExpandAlias(Strip(l), aliases), commands_ci).args

\* the lower-cased head h is the name n in some letter case, and n is the
\* start of other, longer registered names
ExactAmongLonger(n, h) ==
    /\ Len(n) = Len(h)
    /\ Lower(n) = h
    /\ \E m \in Keys(commands) : Len(m) > Len(n) /\ StartsWith(Lower(m), h)

\* C24 as stated: when the head of the line equals, case-insensitively, a
\* registered name that is also a proper prefix of other registered names
\* ('list' next to 'list_users'), the line resolves to that command with the
\* split arguments and is not reported as ambiguous.
C24_ExactHeadBeatsPrefix ==
    (pc = "resolved" /\ Strip(line) # "") =>
        \A h \in {Lower(HeadOf(line))} :
            \A n \in Keys(commands) :
                ExactAmongLonger(n, h) => result = ResolvedTo(n, ArgsOf(line))

\* C24 amended: the same, for a name that shares its lower-cased form with
\* no other registered name.
C24_UniqueExactHeadBeatsPrefix ==
    (pc = "resolved" /\ Strip(line) # "") =>
        \A h \in {Lower(HeadOf(line))} :
            \A n \in Keys(commands) :
                (ExactAmongLonger(n, h) /\ CaseUnique(n)) => result = ResolvedTo(n, ArgsOf(line))

\* 'list reports' has resolved to 'list' while 'list_users' is registered
C24_Witness ==
    /\ pc = "resolved"
    /\ line = "list reports"
    /\ "list_users" \in Keys(commands)
    /\ CaseUnique("list")
    /\ result = ResolvedTo("list", <<"reports">>)

\* the registered names that start with the lower-cased head h or that h
\* matches as a glob
CandidatesOf(h) ==
    {n \in Keys(commands) : StartsWith(Lower(n), h) \/ FnMatch(Lower(n), h)}

\* C25 as stated: a key _resolve returns is a name of the registry, the
\* handler returned is the one registered under it, and either the head
\* equals the key case-insensitively or the key is the only registered name
\* that starts with the lower-cased head or glob-matches it; a head with
\* exactly one such candidate always resolves to it with the given arguments.
C25_ResolvedKeyIsExactOrOnlyCandidate ==
    (pc = "resolved" /\ Strip(line) # "") =>
        \A h \in {Lower(HeadOf(line))} :
            \A cs \in {CandidatesOf(h)} :
                /\ result.key # <<>> =>
                      /\ result.key[1] \in Keys(commands)
                      /\ result.val = DictGet(commands, result.key[1])
                      /\ \/ Len(h) = Len(result.key[1]) /\ h = Lower(result.key[1])
                         \/ cs = {result.key[1]}
                /\ Cardinality(cs) = 1 =>
                      \A n \in cs : result = ResolvedTo(n, ArgsOf(line))

\* C25 amended: the key may also be the whole alias-expanded line taken
\* case-insensitively, and a head with exactly one candidate resolves to it
\* with the given arguments unless the whole line is itself a registered name.
C25_ResolvedKeyIsLineHeadOrOnlyCandidate ==
    (pc = "resolved" /\ Strip(line) # "") =>
        \A h \in {Lower(HeadOf(line))}, full \in {Lower(ExpandAlias(Strip(line), aliases))} :
            \A cs \in {CandidatesOf(h)} :
                /\ result.key # <<>> =>
                      /\ result.key[1] \in Keys(commands)
                      /\ result.val = DictGet(commands, result.key[1])
                      /\ \/ Len(full) = Len(result.key[1]) /\ full = Lower(result.key[1])
                         \/ Len(h) = Len(result.key[1]) /\ h = Lower(result.key[1])
                         \/ cs = {result.key[1]}
                /\ (Cardinality(cs) = 1 /\ full \notin DOMAIN commands_ci) =>
                      \A n \in cs : result = ResolvedTo(n, ArgsOf(line))

\* the glob head of 'dump_fil? x y' has the one candidate dump_file
C25_Witness ==
    /\ pc = "resolved"
    /\ line = "dump_fil? x y"
    /\ CandidatesOf(Lower(HeadOf(line))) = {"dump_file"}
    /\ result = ResolvedTo("dump_file", <<"x", "y">>)

OneAfterTheOther(p, q) == q \in submitters[p].after \/ p \in submitters[q].after

\* the file p chose holds the record of p
RecordSurvives(p) ==
    /\ submitters[p].path \in DOMAIN files
    /\ files[submitters[p].path] = submitters[p].job[1]

\* C27: unique-name generation is not atomic across processes. When the
\* submitters run one after another, each choosing its name after the one
\* before has written its file, they choose different file names and every
\* record survives; when their steps interleave, two of them can choose the
\* same name and only one record survives.
C27_SequentialSubmitsLoseNothing ==
    ((\A p \in Submitters : submitters[p].at = "done")
        /\ \A p, q \in Submitters : p # q => OneAfterTheOther(p, q))
        => /\ \A p \in Submitters : RecordSurvives(p)
           /\ \A p, q \in Submitters : p # q => submitters[p].path # submitters[q].path

\* two submitters of the same process name and queue have both written, to
\* the same file name, and the record of one of them is gone
C27_Witness ==
    /\ \A p \in Submitters : submitters[p].at = "done"
    /\ \E p, q \in Submitters :
          /\ p # q
          /\ ~OneAfterTheOther(p, q)
          /\ submitters[p].path = submitters[q].path
          /\ submitters[p].job[1].process_name = submitters[q].job[1].process_name
          /\ submitters[p].job[1].queue_name = submitters[q].job[1].queue_name
          /\ submitters[p].job # submitters[q].job
          /\ ~RecordSurvives(p)
          /\ RecordSurvives(q)
    /\ Cardinality(Jobs(files)) < NumSubmitters

\* the record at p is still stored after the step, listed as 'pending', with
\* the command line, process name and queue it had
RecordKept(p) ==
    /\ p \in Jobs(files')
    /\ files'[p].command_line = files[p].command_line
    /\ files'[p].process_name = files[p].process_name
    /\ files'[p].queue_name = files[p].queue_name
    /\ \E e \in JobEntries(files', dirs') :
           JobFile(e) = p /\ StatusRow(files', e)[5] = "pending"

\* the step is a cancel with a pattern that matches the record at p
CancelledBy(p, call) ==
    call.op = "h_cancel_batch_requests" /\ MatchesAny(files[p].process_name, call.args)

BatchWriters == {"h_batch", "h_cancel_batch_requests", "h_update_batch_requests"}

JobRecords(fs) == [p \in Jobs(fs) |-> fs[p]]

\* the call is a file handler whose path resolves outside STATE_DIR
EscapesSandbox(call) ==
    call.op = "h_delete_file" /\ Len(call.args) = 1 /\ ~Inside(TargetOf(call))

C29_OnlyDirectoryChangeContains ==
    [][(pc' = "called" /\ Len(last'.args) = 1 /\ ~Inside(TargetOf(last')))
          => \A target \in {TargetOf(last')} :
                /\ isabs(Strip(last'.args[1])) => target = Strip(last'.args[1])
                /\ last'.op = "h_create_dir"
                      => /\ last'.ret.t = "str"
                         /\ ~Contains(last'.ret.v, "outside STATE_DIR")
                         /\ Succeeded(last'.ret) => isdir(dirs', target)
                         /\ (~exists(files, dirs, target) /\ isdir(dirs, dirname(target)))
                               => Succeeded(last'.ret)
                /\ last'.op = "h_change_current_dir"
                      => /\ IsErr(last'.ret)
                         /\ CURRENT_DIR' = CURRENT_DIR]_vars

\* create_dir has made a directory outside STATE_DIR
C29_EscapeReached ==
    /\ pc = "called"
    /\ last.op = "h_create_dir"
    /\ last.args = <<"/w/vos_state/filesystem2">>
    /\ Succeeded(last.ret)
    /\ isdir(dirs, "/w/vos_state/filesystem2")

\* the '.job' files of the queues that do not parse
UnreadableFiles(fs, ds) ==
    {e \in JobEntries(fs, ds) : JobFile(e) \in DOMAIN fs /\ ~Readable(fs, e)}

CountIn(ret, verb) ==
    CHOOSE n \in 0..(MaxStored + 2) :
        ret = Returned(_ok(verb \o " " \o ToStr(n) \o " batch request(s)"))

\* C30: cancel takes a '.job' file that does not parse by its base name,
\* and removes and counts it when a pattern matches; update passes over
\* every such file, neither rewriting nor counting it
C30_CancelTakesUnreadableUpdateSkips ==
    [][(pc' = "called" /\ Succeeded(last'.ret))
          => /\ last'.op = "h_cancel_batch_requests"
                  => /\ \A e \in UnreadableFiles(files, dirs) :
                            IF MatchesAny(BaseName(e[2]), last'.args)
                            THEN JobFile(e) \notin DOMAIN files'
                            ELSE /\ JobFile(e) \in DOMAIN files'
                                 /\ files'[JobFile(e)] = files[JobFile(e)]
                     /\ last'.ret = Returned(_ok("cancelled "
                            \o ToStr(Cardinality(DOMAIN files \ DOMAIN files'))
                            \o " batch request(s)"))
             /\ last'.op = "h_update_batch_requests"
                  => /\ \A e \in UnreadableFiles(files, dirs) :
                            /\ JobFile(e) \in DOMAIN files'
                            /\ files'[JobFile(e)] = files[JobFile(e)]
                     /\ last'.ret = Returned(_ok("updated "
                            \o ToStr(Cardinality({p \in Jobs(files) : files'[p] # files[p]}))
                            \o " batch request(s)"))]_vars

\* the file left behind went through an update whose pattern matched it,
\* which changed only the readable jobs, and is then cancelled by its base
\* name
C30_Witness ==
    /\ pc = "called"
    /\ last.op = "h_cancel_batch_requests"
    /\ last.args = <<"B*">>
    /\ last.ret = Returned("[OK] cancelled 2 batch request(s)")
    /\ DOMAIN LeftBehind \cap DOMAIN files = {}
    /\ \E p \in Jobs(files) :
           /\ files[p].process_name = "x"
           /\ files[p].process_priority = <<2>>
           /\ files[p].queue_priority = <<4>>

====
